---- MODULE Spec2Model ----
(***************************************************************************)
(* A model of the autopsy Report store (src/autopsy/report.py): the five   *)
(* observation operations log, count, hist, timeline and happened, init,   *)
(* and the export to_json, run by threads that serialise on the store's    *)
(* reentrant lock.                                                         *)
(*                                                                         *)
(* Spec       threads interleave at the statements of the handlers         *)
(* SpecCount  one caller, whole calls: count() over the full set of values *)
(* SpecDash   one caller, whole calls: happened, timeline, hist and log    *)
(* SpecTrace  one caller, whole calls: log of a CallStack object           *)
(* SpecSites  two threads, log and hist at two call sites, and to_json()   *)
(* SpecExport one caller, whole calls and to_json() at several times       *)
(* SpecFloat  one caller, whole calls with non-finite floats               *)
(* SpecNav    the navigation of a CallStack (src/autopsy/call_stack.py)    *)
(*            through FrameQuery, AutopsyResult and _AttributeProxy        *)
(* SpecCodec  the value codecs applied to nested and cyclic values         *)
(* SpecLive   one caller in live mode, the event loop and a subscriber     *)
(***************************************************************************)
EXTENDS Integers, Sequences, FiniteSets, TLC

VARIABLES
    report,    \* the Report instance: its fields (report.py 42-79)
    lock,      \* Report._lock, an RLock: its owner and its recursion depth
    pc,        \* pc[t]: where thread t stands in the call it is making
    frame,     \* frame[t]: the arguments and local variables of t's call
    result,    \* what the call that has just completed returned or raised
    entered,   \* history: observation calls that took the lock since the last clear
    clock,     \* history: a logical clock of lock acquisitions and releases
    done,      \* history: the completed observation calls since the last clear
    cleared,   \* history: init(clear=True) has discarded stored data
    callstack, \* the CallStack object the caller holds: its fields
    nav,       \* the expression the caller evaluates on callstack, and its history
    live,      \* the live_server module: its globals, and its subscribers
    process    \* the process: the module globals of report.py, the files written

vars == <<report, lock, pc, frame, result, entered, clock, done, cleared,
          callstack, nav, live, process>>
\* The state outside the Report instance.
outside == <<callstack, nav, live, process>>

(***************************************************************************)
(* Bounds of the model.                                                    *)
(***************************************************************************)
\* Observation calls started between two clears, in Spec.
MaxOps == 2
\* Observation calls made between two clears, in SpecCount and SpecDash.
MaxSeqOps == 3
\* time.time() returns a value of 1..MaxTime.
MaxTime == 2
\* The interpreter's recursion limit, in calls of _to_json_serializable.
RecursionLimit == 4

Threads == {"t1", "t2"}
NoThread == "none"
\* Call sites (file, line).
Sites == {"a.py:1", "a.py:2"}
\* The call site of the calls that use one site only.
TheSite == "a.py:1"
\* Python's None.
None == "<None>"

(***************************************************************************)
(* Python values: a type tag t and a payload v.  A dict is the sequence of *)
(* its <<key, value>> pairs in insertion order.  "selfref" is the list     *)
(* l = []; l.append(l), whose one item is the list itself.  "function" is  *)
(* a lambda: neither picklable nor JSON-serializable.                      *)
(***************************************************************************)
IntV(n) == [t |-> "int", v |-> n]
StrV(s) == [t |-> "str", v |-> s]
TupleV(items) == [t |-> "tuple", v |-> items]
ListV(items) == [t |-> "list", v |-> items]
DictV(pairs) == [t |-> "dict", v |-> pairs]
SelfRefV == [t |-> "selfref", v |-> <<>>]
\* A float, by its repr: "inf", "-inf", "nan", or that of a finite number.
FloatV(text) == [t |-> "float", v |-> text]
NonFinite == {"inf", "-inf", "nan"}
\* The text json.dumps writes for a float when allow_nan is left at True.
FloatText(x) ==
    CASE x.v = "inf" -> "Infinity"
      [] x.v = "-inf" -> "-Infinity"
      [] x.v = "nan" -> "NaN"
      [] OTHER -> x.v
FunctionV == [t |-> "function", v |-> "<lambda>"]
NoneV == [t |-> "none", v |-> None]
\* An exception leaving a call, in the place of its return value.
Raise(e) == [t |-> "raise", v |-> e]
IsRaise(x) == x.t = "raise"

IsScalar(x) == x.t \in {"int", "str", "float"}
\* o = []; d = {"k": o}; o.append(d): a list and a dict that hold each other.
OuterV == [t |-> "outer", v |-> <<>>]
InnerV == [t |-> "inner", v |-> <<>>]
\* The containers that are met again on the way down from themselves.
Cyclic(x) == x.t \in {"selfref", "outer", "inner"}
IsListLike(x) == x.t \in {"list", "tuple", "selfref", "outer"}
IsDictLike(x) == x.t \in {"dict", "inner"}
\* The items of a list or tuple; the self-referencing list holds itself.
Items(x) ==
    CASE x.t = "selfref" -> <<x>>
      [] x.t = "outer" -> <<InnerV>>
      [] OTHER -> x.v
\* The (key, value) pairs of a dict.
Pairs(x) == IF x.t = "inner" THEN << <<StrV("k"), OuterV>> >> ELSE x.v

\* hash(value) succeeds: scalars, and tuples of hashable items.
RECURSIVE Hashable(_)
Hashable(x) ==
    CASE IsScalar(x) -> TRUE
      [] x.t = "tuple" -> \A i \in 1..Len(x.v) : Hashable(x.v[i])
      [] x.t = "function" -> TRUE
      [] OTHER -> FALSE

\* json.dumps(value) succeeds: basic types all the way down, dict keys that
\* are str or int, and no container inside itself (ValueError otherwise).
RECURSIVE DumpsOk(_)
DumpsOk(x) ==
    CASE IsScalar(x) -> TRUE
      [] x.t \in {"list", "tuple"} -> \A i \in 1..Len(x.v) : DumpsOk(x.v[i])
      [] x.t = "dict" ->
            \A i \in 1..Len(x.v) : IsScalar(x.v[i][1]) /\ DumpsOk(x.v[i][2])
      [] OTHER -> FALSE

\* str(k) of a dict key.
PyStr(k) == IF k.t = "int" THEN ToString(k.v) ELSE k.v

\* repr(value) of a value json cannot encode.
Repr(x) == IF x.t = "function" THEN "<function <lambda>>" ELSE "?"

\* Report._to_json_serializable, called at recursion depth d.  The list
\* branch calls it again on every item, so a list that holds itself never
\* reaches a leaf: the interpreter raises RecursionError at its limit.
RECURSIVE to_json_serializable_at(_, _)
to_json_serializable_at(value, d) ==
    IF d > RecursionLimit THEN Raise("RecursionError")
    ELSE IF DumpsOk(value) THEN value
    ELSE IF IsScalar(value) THEN value
    ELSE IF IsListLike(value) THEN
        LET items == [i \in 1..Len(Items(value)) |->
                        to_json_serializable_at(Items(value)[i], d + 1)]
        IN  IF \E i \in 1..Len(Items(value)) : IsRaise(items[i])
            THEN Raise("RecursionError")
            ELSE ListV(items)
    ELSE IF IsDictLike(value) THEN
        LET pairs == [i \in 1..Len(Pairs(value)) |->
                        <<StrV(PyStr(Pairs(value)[i][1])),
                          to_json_serializable_at(Pairs(value)[i][2], d + 1)>>]
        IN  IF \E i \in 1..Len(Pairs(value)) : IsRaise(pairs[i][2])
            THEN Raise("RecursionError")
            ELSE DictV(pairs)
    ELSE StrV("<" \o value.t \o ": " \o Repr(value) \o ">")

to_json_serializable(value) == to_json_serializable_at(value, 1)

\* json_utils.sanitize_float (14-32).
sanitize_float(value) ==
    IF value.v \in NonFinite THEN StrV(FloatText(value)) ELSE value

\* json_utils.to_json_serializable (35-67), called at recursion depth d: the
\* list and dict branches call it on every item without a record of the
\* containers met and without a bound on the depth.
RECURSIVE json_utils_to_json_serializable_at(_, _)
json_utils_to_json_serializable_at(value, d) ==
    IF d > RecursionLimit THEN Raise("RecursionError")
    ELSE IF value.t = "float" THEN sanitize_float(value)
    ELSE IF IsListLike(value) THEN
        LET items == [i \in 1..Len(Items(value)) |->
                        json_utils_to_json_serializable_at(Items(value)[i], d + 1)]
        IN  IF \E i \in 1..Len(Items(value)) : IsRaise(items[i])
            THEN Raise("RecursionError")
            ELSE ListV(items)
    ELSE IF IsDictLike(value) THEN
        LET pairs == [i \in 1..Len(Pairs(value)) |->
                        <<StrV(PyStr(Pairs(value)[i][1])),
                          json_utils_to_json_serializable_at(Pairs(value)[i][2], d + 1)>>]
        IN  IF \E i \in 1..Len(Pairs(value)) : IsRaise(pairs[i][2])
            THEN Raise("RecursionError")
            ELSE DictV(pairs)
    ELSE IF value.t \in {"int", "str", "none"} THEN value
    ELSE StrV("<" \o value.t \o ": " \o Repr(value) \o ">")

json_utils_to_json_serializable(value) == json_utils_to_json_serializable_at(value, 1)

(***************************************************************************)
(* json.dumps(value, sort_keys=True).                                      *)
(***************************************************************************)
\* Python's order on the strings the model uses as dict keys.
Alphabet == <<"a", "b", "k">>
StrRank(s) == CHOOSE i \in 1..Len(Alphabet) : Alphabet[i] = s
\* The rank of a dict key among keys of its own type.
KeyRank(k) == IF k.t = "int" THEN k.v ELSE StrRank(k.v)

\* ps, a sequence of <<rank, element>>, with p put before the first pair of a
\* greater rank: after the pairs of the same rank.
RECURSIVE InsertSorted(_, _)
InsertSorted(p, ps) ==
    IF ps = <<>> THEN <<p>>
    ELSE IF p[1] < ps[1][1] THEN <<p>> \o ps
    ELSE <<ps[1]>> \o InsertSorted(p, Tail(ps))

RECURSIVE SortPairs(_)
SortPairs(ps) ==
    IF ps = <<>> THEN <<>>
    ELSE InsertSorted(ps[Len(ps)], SortPairs(SubSeq(ps, 1, Len(ps) - 1)))

\* sorted(s, key=...): a stable sort; keys[i] is the key of s[i].
Sorted(s, keys) ==
    LET ps == SortPairs([i \in 1..Len(s) |-> <<keys[i], s[i]>>])
    IN  [i \in 1..Len(ps) |-> ps[i][2]]

PairKeyRank(p) == KeyRank(p[1])

\* sort_keys compares the keys of each dict: ints with strs raise TypeError.
RECURSIVE SortKeysOk(_)
SortKeysOk(x) ==
    CASE x.t \in {"list", "tuple"} -> \A i \in 1..Len(x.v) : SortKeysOk(x.v[i])
      [] x.t = "dict" ->
            /\ \A i, j \in 1..Len(x.v) : x.v[i][1].t = x.v[j][1].t
            /\ \A i \in 1..Len(x.v) : SortKeysOk(x.v[i][2])
      [] OTHER -> TRUE

RECURSIVE Join(_, _)
Join(strs, sep) ==
    IF strs = <<>> THEN ""
    ELSE IF Len(strs) = 1 THEN strs[1]
    ELSE strs[1] \o sep \o Join(Tail(strs), sep)

\* json.dumps(x, sort_keys=sort_keys) of a value json.dumps accepts.
RECURSIVE json_dumps_with(_, _)
json_dumps_with(x, sort_keys) ==
    CASE x.t = "int" -> ToString(x.v)
      [] x.t = "float" -> FloatText(x)
      [] x.t = "str" -> "\"" \o x.v \o "\""
      [] x.t \in {"list", "tuple"} ->
            "[" \o Join([i \in 1..Len(x.v) |->
                            json_dumps_with(x.v[i], sort_keys)], ", ") \o "]"
      [] x.t = "dict" ->
            LET ps == IF sort_keys
                      THEN Sorted(x.v, [i \in 1..Len(x.v) |-> PairKeyRank(x.v[i])])
                      ELSE x.v
            IN  "{" \o Join([i \in 1..Len(ps) |->
                                "\"" \o PyStr(ps[i][1]) \o "\": "
                                     \o json_dumps_with(ps[i][2], sort_keys)],
                            ", ") \o "}"

\* json.dumps(x, sort_keys=True)
json_dumps(x) == json_dumps_with(x, TRUE)

(***************************************************************************)
(* The values the callers pass.                                            *)
(***************************************************************************)
Tuple12 == TupleV(<<IntV(1), IntV(2)>>)
List12 == ListV(<<IntV(1), IntV(2)>>)
DictAB == DictV(<< <<StrV("a"), IntV(1)>>, <<StrV("b"), IntV(2)>> >>)
DictBA == DictV(<< <<StrV("b"), IntV(2)>>, <<StrV("a"), IntV(1)>> >>)
\* {1: "a", "b": 2}: json.dumps takes it, sort_keys cannot order its keys.
DictMixed == DictV(<< <<IntV(1), StrV("a")>>, <<StrV("b"), IntV(2)>> >>)

\* The values passed to count() in SpecCount and in Spec.
CountValues == {Tuple12, List12, DictAB, DictBA, SelfRefV}
ThreadCountValues == {Tuple12, DictMixed}
\* The values passed to log(), one per call.
LogValues == {IntV(1), FunctionV}
\* The messages passed to happened().
Messages == {NoneV, StrV("first"), StrV("second")}
\* Floats: the numbers added to histograms, and the values logged and counted.
HistValues == {FloatV("inf"), FloatV("-inf"), FloatV("nan"), FloatV("1.5")}
FloatLogValues == {FloatV("inf"), ListV(<<FloatV("1.5"), FloatV("nan")>>)}
FloatCountValues == {FloatV("1.5"), FloatV("inf"), ListV(<<FloatV("-inf")>>)}

\* The value has a JSON text: the conversion and the dump both succeed.
HasJsonText(value) ==
    /\ ~IsRaise(to_json_serializable(value))
    /\ SortKeysOk(to_json_serializable(value))

\* json.loads(text) succeeds: text is the JSON text of some value.  (Of the
\* str values of this model none is a JSON text with other spacing.)
IsJsonText(text) ==
    \E value \in CountValues \cup FloatCountValues :
        HasJsonText(value) /\ json_dumps(to_json_serializable(value)) = text

(***************************************************************************)
(* The Report instance.  A dict keyed by call site is a function on Sites  *)
(* whose value at a site without a key is the empty sequence; _counts,     *)
(* which can hold a site with no bucket, has its keys in counts_metadata.  *)
(* _stack_traces is a function on the log indices that have a trace.       *)
(***************************************************************************)
\* An absent stack_trace_id: None in a record, -1 in a count or hist tuple.
NoTraceId == -1
EmptyBySite == [s \in Sites |-> <<>>]
\* A site without a key in _happened.
NoHappened == [count |-> 0, ids |-> <<>>, message |-> NoneV]

\* ReportConfiguration (20-26); live_mode is False unless given.
LiveConfiguration(auto_stack_trace, live_mode) ==
    [auto_stack_trace |-> auto_stack_trace, live_mode |-> live_mode]
ReportConfiguration(auto_stack_trace) == LiveConfiguration(auto_stack_trace, FALSE)

NewReport ==
    [ logs |-> EmptyBySite,
      log_index |-> 0,
      config |-> ReportConfiguration(TRUE),
      stack_traces |-> <<>>,
      counts |-> EmptyBySite,
      counts_metadata |-> {},
      histograms |-> EmptyBySite,
      timeline |-> <<>>,
      happened |-> [s \in Sites |-> NoHappened],
      dashboard_logs |-> EmptyBySite,
      initialized |-> FALSE,
      written |-> FALSE ]

\* The arguments and locals of a call: op is the method, site its caller's
\* (file, line), arg its argument (for log the tuple of its arguments), now the value
\* time.time() returns to it, out what the call has decided to return before
\* its last statements.
NewFrame(op, site, arg, now) ==
    [ op |-> op, site |-> site, arg |-> arg, now |-> now,
      log_index |-> NoTraceId, stack_trace_id |-> NoTraceId,
      serialized_values |-> <<>>, enter |-> 0, out |-> NoneV ]
NoFrame == NewFrame("none", "none", NoneV, 0)

ensure_initialized(r) == [r EXCEPT !.initialized = TRUE]

\* A CallStack object: id names the object (made by the user's n-th call
\* of call_stack(), or inside the observation call that read index n),
\* frames are the frames from its caller outward, captured_trace is the
\* cache of capture_stack_trace(), made counts the StackTrace objects it has
\* built.  A StackTrace object is named by the CallStack that built it and
\* its rank among those.
ObjectId(by, n) == [by |-> by, n |-> n]
NoTrace == [frames |-> <<>>, object |-> [of |-> ObjectId("none", 0), n |-> 0]]
\* One entry of _frames: where the frame is, its function and the names of
\* its local variables.
FrameInfo(site, function, locals) ==
    [site |-> site, function |-> function, locals |-> locals]
CallStackAt(id, site) ==
    [id |-> id, frames |-> <<FrameInfo(site, "main", {"x"})>>,
     captured_trace |-> NoTrace, made |-> 0]
CallStackV(cs) == [t |-> "CallStack", v |-> cs]

\* call_stack() called inside an observation method: a new object.
call_stack(r, f) == CallStackAt(ObjectId("log", r.log_index), f.site)

\* CallStack.capture_stack_trace(): the trace is built on the first call and
\* kept in _captured_trace; every later call returns that same object.
capture_stack_trace(cs) ==
    IF cs.captured_trace = NoTrace
    THEN LET trace == [frames |-> cs.frames,
                       object |-> [of |-> cs.id, n |-> cs.made + 1]]
         IN  [cs |-> [cs EXCEPT !.captured_trace = trace, !.made = @ + 1],
              trace |-> trace]
    ELSE [cs |-> cs, trace |-> cs.captured_trace]

(***************************************************************************)
(* AutopsyResult, _AttributeProxy (autopsy_result.py) and Frame,            *)
(* FrameQuery, CallStack.frame (call_stack.py).  An object is a record      *)
(* whose t is its class; a bound method is the pair of its object and its   *)
(* name.  A FrameQuery refers to the one CallStack of the caller, which the *)
(* operators that resolve it take as cs.                                    *)
(***************************************************************************)
IsNone(x) == x.t = "none"
\* An exception of class kind leaving an expression.
Fault(kind, message) == [t |-> "raise", v |-> message, kind |-> kind]
BoolV(b) == [t |-> "bool", v |-> b]
ErrorInfo(message, context) ==
    [t |-> "ErrorInfo", message |-> message, context |-> context]
Method(self, name) == [t |-> "method", self |-> self, name |-> name]
callable(attr) == attr.t = "method"

\* Faulty variant: the constructor takes what it is given.
AutopsyResult_unchecked(value, error) ==
    [t |-> "AutopsyResult", value |-> value, error |-> error]

\* AutopsyResult.__init__ (187-203).
AutopsyResult(value, error) ==
    IF ~IsNone(value) /\ ~IsNone(error)
    THEN Fault("ValueError", "Cannot have both value and error")
    ELSE IF IsNone(value) /\ IsNone(error)
    THEN Fault("ValueError", "Must have either value or error")
    ELSE [t |-> "AutopsyResult", value |-> value, error |-> error]
ok(value) == AutopsyResult(value, NoneV)
err(error) == AutopsyResult(NoneV, error)
is_ok(r) == IsNone(r.error)
is_err(r) == ~IsNone(r.error)
\* The properties value (223-231) and error (233-238).
AutopsyResult_value(r) ==
    IF ~IsNone(r.error)
    THEN Fault("ValueError", "Cannot access value of error result: " \o r.error.message)
    ELSE r.value
AutopsyResult_error(r) ==
    IF IsNone(r.error) THEN Fault("ValueError", "Cannot access error of success result")
    ELSE r.error

\* Frame (56-231) and Variable (38-53): function is a property, variable a
\* method; a Variable has the fields name and value.
FrameV(info) == [t |-> "Frame", info |-> info]
Variable(name, value) == [t |-> "Variable", name |-> name, value |-> value]
IsProperty(obj, name) == obj.t = "Frame" /\ name = "function"
\* getattr(obj, name) of an object that forwards nothing.
getattr_plain(obj, name) ==
    CASE obj.t = "Frame" /\ name = "function" -> StrV(obj.info.function)
      [] obj.t = "Frame" /\ name = "variable" -> Method(obj, "variable")
      [] obj.t = "Variable" /\ name = "value" -> obj.value
      [] OTHER -> Fault("AttributeError", obj.t \o " has no attribute " \o name)
\* Frame.variable (178-209).
Frame_variable(fr, name) ==
    IF name \in fr.info.locals
    THEN ok(Variable(name, IntV(1)))
    ELSE err(ErrorInfo("Variable '" \o name \o "' not found in frame",
                       [variable_name |-> name,
                        available_variables |-> fr.info.locals]))

\* Faulty variant: a negative index counts from the end, as a list does.
CallStack_frame_from_end(cs, frame_index) ==
    LET n == Len(cs.frames)
    IN  IF frame_index >= n \/ frame_index < 0 - n
        THEN err(ErrorInfo("Frame index out of range",
                           [frame_index |-> frame_index,
                            available_frames |-> n,
                            valid_range |-> IF n > 0 THEN <<0, n - 1>> ELSE <<0, -1>>]))
        ELSE ok(FrameV(cs.frames[IF frame_index < 0 THEN n + frame_index + 1
                                 ELSE frame_index + 1]))

\* CallStack.frame (344-372).
CallStack_frame(cs, frame_index) ==
    IF frame_index < 0 \/ frame_index >= Len(cs.frames)
    THEN err(ErrorInfo("Frame index out of range",
                       [frame_index |-> frame_index,
                        available_frames |-> Len(cs.frames),
                        valid_range |-> IF Len(cs.frames) > 0
                                        THEN <<0, Len(cs.frames) - 1>>
                                        ELSE <<0, -1>>]))
    ELSE ok(FrameV(cs.frames[frame_index + 1]))

\* FrameQuery (234-298).
FrameQueryV(frame_offset) == [t |-> "FrameQuery", frame_offset |-> frame_offset]
FrameQuery_resolve(cs, q) == CallStack_frame(cs, q.frame_offset)
\* Faulty variant: the offset is kept.
FrameQuery_caller_stays(q) == q
FrameQuery_caller(q) == FrameQueryV(q.frame_offset + 1)
FrameQuery_variable(cs, q, name) ==
    LET frame_result == FrameQuery_resolve(cs, q)
    IN  IF is_err(frame_result) THEN err(frame_result.error)
        ELSE Frame_variable(frame_result.value, name)

\* _AttributeProxy (96-174).
AttributeProxy(of, attr_name) ==
    [t |-> "_AttributeProxy", result |-> of, attr_name |-> attr_name]

\* FrameQuery.__getattr__ (288-298).
FrameQuery_getattr(cs, q, name) ==
    LET frame_result == FrameQuery_resolve(cs, q)
    IN  IF is_err(frame_result) THEN AttributeProxy(frame_result, name)
        ELSE getattr_plain(frame_result.value, name)

\* AutopsyResult.__getattr__ (240-279).
AutopsyResult_getattr(r, name) ==
    IF is_err(r) THEN AttributeProxy(r, name)
    ELSE IF IsProperty(r.value, name) THEN getattr_plain(r.value, name)
    ELSE LET attr == getattr_plain(r.value, name)
         IN  IF IsRaise(attr) THEN attr
             ELSE IF callable(attr) THEN AttributeProxy(r, name)
             ELSE attr

\* The attributes of a FrameQuery and of an AutopsyResult: those the class
\* defines, and __getattr__ for every other name.
FrameQuery_attribute(cs, q, name) ==
    CASE name = "caller" -> FrameQuery_caller(q)
      [] name = "value" -> AutopsyResult_value(FrameQuery_resolve(cs, q))
      [] name = "error" -> AutopsyResult_error(FrameQuery_resolve(cs, q))
      [] name \in {"is_ok", "is_err", "variable"} -> Method(q, name)
      [] OTHER -> FrameQuery_getattr(cs, q, name)
AutopsyResult_attribute(r, name) ==
    CASE name = "value" -> AutopsyResult_value(r)
      [] name = "error" -> AutopsyResult_error(r)
      [] name \in {"is_ok", "is_err"} -> Method(r, name)
      [] OTHER -> AutopsyResult_getattr(r, name)

\* Calling a bound method with the positional arguments args.
call_method(cs, m, args) ==
    CASE m.name \in {"is_ok", "is_err"} /\ args # <<>> ->
            Fault("TypeError", "takes 1 positional argument")
      [] m.name = "variable" /\ Len(args) # 1 ->
            Fault("TypeError", "missing 1 required positional argument")
      [] m.self.t = "FrameQuery" /\ m.name = "is_ok" ->
            BoolV(is_ok(FrameQuery_resolve(cs, m.self)))
      [] m.self.t = "FrameQuery" /\ m.name = "is_err" ->
            BoolV(is_err(FrameQuery_resolve(cs, m.self)))
      [] m.self.t = "FrameQuery" /\ m.name = "variable" ->
            FrameQuery_variable(cs, m.self, args[1])
      [] m.self.t = "AutopsyResult" /\ m.name = "is_ok" -> BoolV(is_ok(m.self))
      [] m.self.t = "AutopsyResult" /\ m.name = "is_err" -> BoolV(is_err(m.self))
      [] m.self.t = "Frame" /\ m.name = "variable" -> Frame_variable(m.self, args[1])

\* _AttributeProxy.__call__ (108-139).
AttributeProxy_call(cs, p, args) ==
    IF is_err(p.result) THEN p.result
    ELSE LET attr == getattr_plain(p.result.value, p.attr_name)
         IN  IF IsRaise(attr) THEN attr
             ELSE IF ~callable(attr)
             THEN Fault("AttributeError", p.attr_name \o " is not callable")
             ELSE LET result_value == call_method(cs, attr, args)
                  IN  IF IsRaise(result_value) \/ result_value.t = "AutopsyResult"
                      THEN result_value
                      ELSE ok(result_value)

\* _AttributeProxy.__getattr__ (141-174).
AttributeProxy_getattr(p, name) ==
    IF is_err(p.result) THEN AttributeProxy(p.result, name)
    ELSE LET attr == getattr_plain(p.result.value, p.attr_name)
         IN  IF IsRaise(attr) THEN attr
             ELSE IF attr.t = "AutopsyResult"
             THEN LET nested_attr == AutopsyResult_attribute(attr, name)
                  IN  IF IsRaise(nested_attr) /\ nested_attr.kind = "AttributeError"
                      THEN AttributeProxy(attr, name)
                      ELSE nested_attr
             ELSE IF callable(attr) THEN AttributeProxy(p.result, name)
             ELSE getattr_plain(attr, name)

\* obj.name and obj(*args) of any object.
getattr(cs, obj, name) ==
    CASE obj.t = "CallStack" /\ name = "current" -> FrameQueryV(0)
      [] obj.t = "CallStack" /\ name = "caller" -> FrameQueryV(1)
      [] obj.t = "FrameQuery" -> FrameQuery_attribute(cs, obj, name)
      [] obj.t = "AutopsyResult" -> AutopsyResult_attribute(obj, name)
      [] obj.t = "_AttributeProxy" -> AttributeProxy_getattr(obj, name)
      [] obj.t \in {"Frame", "Variable"} -> getattr_plain(obj, name)
      [] OTHER -> Fault("AttributeError", obj.t \o " has no attribute " \o name)
call_object(cs, obj, args) ==
    CASE obj.t = "method" -> call_method(cs, obj, args)
      [] obj.t = "_AttributeProxy" -> AttributeProxy_call(cs, obj, args)
      [] OTHER -> Fault("TypeError", obj.t \o " object is not callable")

\* CallStack._serialize_to_json (406-543).  visited holds the containers
\* entered and not yet left; only a container that holds itself, directly or
\* through others, can be met while it is in visited, so visited is kept as
\* the set of the kinds of those.  A tuple is not put into visited.
DefaultMaxDepth == 10
RECURSIVE serialize_to_json(_, _, _)
serialize_to_json(value, visited, max_depth) ==
    IF max_depth <= 0 THEN StrV("<max_depth_reached>")
    ELSE IF value.t = "none" THEN value
    ELSE IF value.t = "function" THEN StrV("<function>")
    ELSE IF IsScalar(value) THEN value
    ELSE IF value.t \in visited THEN StrV("<circular_reference>")
    ELSE LET inside == IF Cyclic(value) THEN visited \cup {value.t} ELSE visited
         IN  IF IsListLike(value)
             THEN ListV([i \in 1..Len(Items(value)) |->
                            serialize_to_json(Items(value)[i], inside, max_depth - 1)])
             ELSE IF IsDictLike(value)
             THEN DictV([i \in 1..Len(Pairs(value)) |->
                            <<StrV(PyStr(Pairs(value)[i][1])),
                              serialize_to_json(Pairs(value)[i][2], inside,
                                                max_depth - 1)>>])
             ELSE StrV("<" \o value.t \o ">")

\* self._stack_traces[stack_trace_id] = trace
StoreTrace(traces, id, trace) == (id :> trace) @@ traces

\* Faulty variant: the increment is lost.
NextIndex_stuck(i) == i

\* self._log_index += 1
NextIndex(i) == i + 1

\* pickle.dumps(value), or the text log() stores when it raises.
Picklable(value) == value.t \notin {"function", "CallStack"}
PickleError(value) ==
    IF value.t = "CallStack" THEN "cannot pickle 'frame' object"
    ELSE "Can't pickle " \o Repr(value)
pickle_dumps(value) ==
    IF Picklable(value) THEN [t |-> "bytes", v |-> value]
    ELSE StrV("<PickleError: " \o PickleError(value) \o ">")
pickle_loads(pickled) == pickled.v

(***************************************************************************)
(* log(args...) in three steps: the trace is stored under the index read     *)
(* first (407-414), the values are pickled (417-425), the group is built   *)
(* with the index read again, the index incremented and the group appended *)
(* (428-447).                                                              *)
(***************************************************************************)
\* The positions of the CallStack objects among the logged values.
CallStackArgs(f) == {i \in 1..Len(f.arg.v) : f.arg.v[i].t = "CallStack"}
\* The first CallStack among the values is used (393-400), else with
\* auto_stack_trace a new one (403-404); its trace is stored under the index
\* (407-414).  The values refer to one CallStack object of the caller, whose
\* fields after the call are put back into every value that refers to it.
log_capture(r, f) ==
    LET passed == CallStackArgs(f)
        first == CHOOSE i \in passed : \A j \in passed : i <= j
        call_stack_obj == IF passed # {} THEN f.arg.v[first].v ELSE call_stack(r, f)
        c == capture_stack_trace(call_stack_obj)
    IN  IF r.config.auto_stack_trace
        THEN [r |-> [r EXCEPT !.stack_traces = StoreTrace(@, r.log_index, c.trace)],
              f |-> [f EXCEPT !.stack_trace_id = r.log_index,
                              !.arg.v = [i \in 1..Len(@) |->
                                            IF i \in passed THEN CallStackV(c.cs)
                                            ELSE @[i]]]]
        ELSE [r |-> r, f |-> f]

log_serialize(r, f) ==
    [r |-> r,
     f |-> [f EXCEPT !.serialized_values =
                [i \in 1..Len(f.arg.v) |-> pickle_dumps(f.arg.v[i])]]]

\* Faulty variant: the group is put in front of the groups of its call site.
log_append_front(r, f) ==
    LET log_group == [ values |-> f.serialized_values,
                       log_index |-> r.log_index,
                       stack_trace_id |-> f.stack_trace_id ]
    IN  [r |-> [r EXCEPT !.log_index = NextIndex(@),
                         !.logs[f.site] = <<log_group>> \o @],
         f |-> [f EXCEPT !.log_index = r.log_index],
         out |-> NoneV]

\* The group is built with the index read again, the index incremented and
\* the group appended to the list of its call site (428-447).
log_append(r, f) ==
    LET log_group == [ values |-> f.serialized_values,
                       log_index |-> r.log_index,
                       stack_trace_id |-> f.stack_trace_id ]
    IN  [r |-> [r EXCEPT !.log_index = NextIndex(@),
                         !.logs[f.site] = Append(@, log_group)],
         f |-> [f EXCEPT !.log_index = r.log_index],
         out |-> NoneV]

(***************************************************************************)
(* count, hist, timeline and happened open alike: the index is read        *)
(* (510), then incremented, the trace stored under it and the dashboard    *)
(* log appended (511-538).                                                 *)
(***************************************************************************)
dashboard_assign(r, f) ==
    [r |-> r, f |-> [f EXCEPT !.log_index = r.log_index]]

dashboard_record(r, f) ==
    LET stack_trace_id ==
            IF r.config.auto_stack_trace THEN f.log_index ELSE NoTraceId
        dashboard_log == [ log_index |-> f.log_index,
                           dashboard_type |-> f.op,
                           value |-> f.arg,
                           timestamp |-> IF f.op = "timeline" THEN f.now ELSE 0,
                           stack_trace_id |-> stack_trace_id ]
        traces == IF r.config.auto_stack_trace
                  THEN StoreTrace(r.stack_traces, stack_trace_id,
                                  capture_stack_trace(call_stack(r, f)).trace)
                  ELSE r.stack_traces
    IN  [r |-> [r EXCEPT !.log_index = NextIndex(@),
                         !.stack_traces = traces,
                         !.dashboard_logs[f.site] = Append(@, dashboard_log)],
         f |-> [f EXCEPT !.stack_trace_id = stack_trace_id]]

(***************************************************************************)
(* The aggregate views, the last step of count, hist, timeline, happened.  *)
(***************************************************************************)
\* Faulty variant: the dump of an unhashable value keeps the insertion order
\* of dict keys.
count_key_unsorted(value) ==
    IF Hashable(value) THEN value
    ELSE LET json_value == to_json_serializable(value)
         IN  IF IsRaise(json_value) THEN json_value
             ELSE StrV(json_dumps_with(json_value, FALSE))

\* The key of a counted value (548-557): the value itself when hash(value)
\* succeeds, else the JSON text of its serializable form; the conversion and
\* json.dumps(..., sort_keys=True) are not guarded and may raise.
count_key(value) ==
    IF Hashable(value) THEN value
    ELSE LET json_value == to_json_serializable(value)
         IN  IF IsRaise(json_value) THEN json_value
             ELSE IF ~SortKeysOk(json_value) THEN Raise("TypeError")
             ELSE StrV(json_dumps(json_value))

\* self._counts[call_site][value_key].append(...), the key added when new.
AddToBucket(buckets, key, entry) ==
    IF \E i \in 1..Len(buckets) : buckets[i].key = key
    THEN [i \in 1..Len(buckets) |->
            IF buckets[i].key = key
            THEN [buckets[i] EXCEPT !.data = Append(@, entry)]
            ELSE buckets[i]]
    ELSE Append(buckets, [key |-> key, data |-> <<entry>>])

count_aggregate(r, f) ==
    LET r1 == [r EXCEPT !.counts_metadata = @ \cup {f.site}]
        value_key == count_key(f.arg)
    IN  IF IsRaise(value_key)
        THEN [r |-> r1, f |-> f, out |-> value_key]
        ELSE [r |-> [r1 EXCEPT !.counts[f.site] =
                        AddToBucket(@, value_key,
                                    <<f.stack_trace_id, f.log_index>>)],
              f |-> f, out |-> NoneV]

hist_aggregate(r, f) ==
    [r |-> [r EXCEPT !.histograms[f.site] =
                Append(@, [num |-> f.arg, stack_trace_id |-> f.stack_trace_id,
                           log_index |-> f.log_index])],
     f |-> f, out |-> NoneV]

timeline_aggregate(r, f) ==
    [r |-> [r EXCEPT !.timeline =
                Append(@, [timestamp |-> f.now, event_name |-> f.arg,
                           call_site |-> f.site,
                           stack_trace_id |-> f.stack_trace_id,
                           log_index |-> f.log_index])],
     f |-> f, out |-> NoneV]

\* Faulty variant: the last message that is not None is kept.
sticky_message_last(stored_message, message) ==
    IF message # NoneV THEN message ELSE stored_message

\* The message kept for a site (740-742): the first that is not None.
sticky_message(stored_message, message) ==
    IF stored_message = NoneV /\ message # NoneV THEN message
    ELSE stored_message

happened_aggregate(r, f) ==
    LET cur == IF r.happened[f.site].count = 0
               THEN [count |-> 0, ids |-> <<>>, message |-> f.arg]
               ELSE r.happened[f.site]
        ids == IF f.stack_trace_id # NoTraceId
               THEN Append(cur.ids, <<f.stack_trace_id, f.log_index>>)
               ELSE cur.ids
    IN  [r |-> [r EXCEPT !.happened[f.site] =
                    [count |-> cur.count + 1, ids |-> ids,
                     message |-> sticky_message(cur.message, f.arg)]],
         f |-> f, out |-> NoneV]

\* The three steps of an observation call, by method.
step_enter(r, f) ==
    IF f.op = "log" THEN log_capture(r, f) ELSE dashboard_assign(r, f)
step_middle(r, f) ==
    IF f.op = "log" THEN log_serialize(r, f) ELSE dashboard_record(r, f)
step_finish(r, f) ==
    CASE f.op = "log" -> log_append(r, f)
      [] f.op = "count" -> count_aggregate(r, f)
      [] f.op = "hist" -> hist_aggregate(r, f)
      [] f.op = "timeline" -> timeline_aggregate(r, f)
      [] f.op = "happened" -> happened_aggregate(r, f)

(***************************************************************************)
(* init(config, clear): config is <<>> for None, else <<configuration>>.   *)
(***************************************************************************)
\* Faulty variant: the counter survives the clear.
clear_data_keeps_index(r) ==
    [r EXCEPT !.logs = EmptyBySite,
              !.stack_traces = <<>>,
              !.counts = EmptyBySite,
              !.counts_metadata = {},
              !.histograms = EmptyBySite,
              !.timeline = <<>>,
              !.happened = [s \in Sites |-> NoHappened],
              !.dashboard_logs = EmptyBySite,
              !.written = FALSE]

clear_data(r) ==
    [r EXCEPT !.logs = EmptyBySite,
              !.log_index = 0,
              !.stack_traces = <<>>,
              !.counts = EmptyBySite,
              !.counts_metadata = {},
              !.histograms = EmptyBySite,
              !.timeline = <<>>,
              !.happened = [s \in Sites |-> NoHappened],
              !.dashboard_logs = EmptyBySite,
              !.written = FALSE]

\* Faulty variant: the data is cleared whatever the flag.
init_always_clears(r, config, clear) ==
    LET r2 == [clear_data(r) EXCEPT !.initialized = TRUE]
    IN  IF config # <<>> THEN [r2 EXCEPT !.config = config[1]] ELSE r2

init(r, config, clear) ==
    LET r1 == IF clear THEN clear_data(r) ELSE r
        r2 == [r1 EXCEPT !.initialized = TRUE]
    IN  IF config # <<>> THEN [r2 EXCEPT !.config = config[1]] ELSE r2

(***************************************************************************)
(* to_json(): the export.                                                  *)
(***************************************************************************)
\* str(stack_trace_id), or None for an absent id.
IdText(id) == IF id = NoTraceId THEN None ELSE ToString(id)

\* One logged value (879-895): the PickleError text as stored, else the
\* unpickled value made serializable, any exception turned into a text.
export_log_value(pickled) ==
    IF pickled.t = "str" THEN pickled
    ELSE LET json_value == to_json_serializable(pickle_loads(pickled))
         IN  IF IsRaise(json_value)
             THEN StrV("<UnpickleError: " \o json_value.v \o ">")
             ELSE json_value

export_log_group(log_group) ==
    [ values |-> [i \in 1..Len(log_group.values) |->
                    export_log_value(log_group.values[i])],
      log_index |-> log_group.log_index,
      stack_trace_id |-> IdText(log_group.stack_trace_id) ]

\* One dashboard log (935-965); the counted value is converted unguarded.
export_dashboard_log(dashboard_log) ==
    [ log_index |-> dashboard_log.log_index,
      dashboard_type |-> dashboard_log.dashboard_type,
      stack_trace_id |-> IdText(dashboard_log.stack_trace_id),
      value |-> IF dashboard_log.dashboard_type = "count"
                THEN to_json_serializable(dashboard_log.value)
                ELSE dashboard_log.value,
      timestamp |-> dashboard_log.timestamp ]

\* The ids of a bucket without the -1 of a call that captured no trace.
RECURSIVE TraceIds(_)
TraceIds(data) ==
    IF data = <<>> THEN <<>>
    ELSE (IF data[1][1] # NoTraceId THEN <<ToString(data[1][1])>> ELSE <<>>)
         \o TraceIds(Tail(data))
LogIndices(data) == [i \in 1..Len(data) |-> data[i][2]]

\* The exported key of a bucket (1021-1041): a str key that parses as JSON
\* is used as it is, any other key is converted and dumped.
exported_key(value_key) ==
    IF value_key.t = "str" /\ IsJsonText(value_key.v) THEN value_key.v
    ELSE json_dumps(to_json_serializable(value_key))

\* json_value_counts[key] = {...}: a key met again replaces the entry.
PutEntry(entries, entry) ==
    IF \E i \in 1..Len(entries) : entries[i].key = entry.key
    THEN [i \in 1..Len(entries) |->
            IF entries[i].key = entry.key THEN entry ELSE entries[i]]
    ELSE Append(entries, entry)

RECURSIVE export_value_counts(_)
export_value_counts(buckets) ==
    IF buckets = <<>> THEN <<>>
    ELSE LET last == buckets[Len(buckets)]
         IN  PutEntry(export_value_counts(SubSeq(buckets, 1, Len(buckets) - 1)),
                      [ key |-> exported_key(last.key),
                        count |-> Len(last.data),
                        stack_trace_ids |-> TraceIds(last.data),
                        log_indices |-> LogIndices(last.data) ])

export_hist_value(sample) ==
    [ value |-> sample.num,
      stack_trace_id |-> IdText(sample.stack_trace_id),
      log_index |-> sample.log_index ]

TimestampOf(event) == event.timestamp
\* Faulty variant: the events are exported in insertion order.
sorted_timeline_unsorted(timeline) == timeline

\* sorted(self._timeline, key=lambda x: x["timestamp"])
sorted_timeline(timeline) ==
    Sorted(timeline, [i \in 1..Len(timeline) |-> TimestampOf(timeline[i])])

export_timeline_event(event) ==
    [ timestamp |-> event.timestamp,
      event_name |-> event.event_name,
      call_site |-> event.call_site,
      stack_trace_id |-> IdText(event.stack_trace_id),
      log_index |-> event.log_index ]

export_happened(h) ==
    [ count |-> h.count,
      stack_trace_ids |-> TraceIds(h.ids),
      log_indices |-> LogIndices(h.ids),
      message |-> h.message ]

\* A counted value whose conversion raises makes the whole export raise.
ExportRaises(r) ==
    \E s \in Sites : \E i \in 1..Len(r.dashboard_logs[s]) :
        /\ r.dashboard_logs[s][i].dashboard_type = "count"
        /\ IsRaise(to_json_serializable(r.dashboard_logs[s][i].value))

\* to_json() assigns to locals only: no field of the Report is written
\* (sorted() at line 1092 builds a new list).
to_json_store_sorts_in_place(r) == [r EXCEPT !.timeline = sorted_timeline(r.timeline)]
to_json_store(r) == r

\* generated_at is datetime.now().isoformat(): the time of the call, here the
\* number `now`.
to_json(r, now) ==
    IF ExportRaises(r) THEN Raise("RecursionError")
    ELSE
    LET json_timeline == LET st == sorted_timeline(r.timeline)
                         IN  [i \in 1..Len(st) |-> export_timeline_event(st[i])]
        count_sites == r.counts_metadata
        hist_sites == {s \in Sites : r.histograms[s] # <<>>}
        happened_sites == {s \in Sites : r.happened[s].count > 0}
    IN  [ t |-> "export",
          generated_at |-> now,
          call_sites |->
              [s \in Sites |-> [i \in 1..Len(r.logs[s]) |->
                                    export_log_group(r.logs[s][i])]],
          dashboard_call_sites |->
              [s \in Sites |-> [i \in 1..Len(r.dashboard_logs[s]) |->
                                    export_dashboard_log(r.dashboard_logs[s][i])]],
          stack_traces |->
              [k \in {ToString(i) : i \in DOMAIN r.stack_traces} |->
                  [frames |-> r.stack_traces[CHOOSE i \in DOMAIN r.stack_traces :
                                                ToString(i) = k].frames]],
          has_dashboard |-> \/ count_sites # {} \/ hist_sites # {}
                            \/ json_timeline # <<>> \/ happened_sites # {},
          counts |-> [s \in count_sites |-> export_value_counts(r.counts[s])],
          histograms |->
              [s \in hist_sites |-> [i \in 1..Len(r.histograms[s]) |->
                                        export_hist_value(r.histograms[s][i])]],
          timeline |-> json_timeline,
          happened |-> [s \in happened_sites |-> export_happened(r.happened[s])] ]

(***************************************************************************)
(* The threads.  A call is made (pc "acquire": the thread is at the        *)
(* `with self._lock`), takes the lock and runs its first step ("inside"),  *)
(* its second ("stored") and its last, which releases the lock ("idle").   *)
(* init and to_json run whole in the step that takes the lock.             *)
(***************************************************************************)
\* Faulty variant: the handlers run without the lock.
LockAvailable_unlocked(t) == TRUE

\* RLock.acquire() returns: the lock is free, or held by the caller.
LockAvailable(t) == lock.owner \in {NoThread, t}
Acquire(l, t) == [owner |-> t, depth |-> l.depth + 1]
Release(l) ==
    IF l.depth <= 1 THEN [owner |-> NoThread, depth |-> 0]
    ELSE [l EXCEPT !.depth = @ - 1]

InitArgs(config, clear) == [t |-> "args", v |-> [config |-> config, clear |-> clear]]
\* The last return; `repeated` (history) tells that it is the return of a
\* to_json() that directly followed another to_json().
Returned(t, op, out) == [thread |-> t, op |-> op, out |-> out, repeated |-> FALSE]
NoResult == Returned(NoThread, "none", NoneV)
\* The CallStack the caller holds at first: call_stack() called at TheSite.
NewCallStack == CallStackAt(ObjectId("user", 1), TheSite)
\* The caller's navigation of its CallStack: query is the FrameQuery it
\* holds, obj the value of the expression it evaluates, `on` the object the
\* last operation was applied to, op that operation with its name, args or
\* index.  History: callers counts the .caller taken to reach query, touched
\* tells that query was used in an expression, probed that a query before it
\* was, len is the length of the expression, origin the error of the first
\* resolution that failed in it.
NoNav ==
    [ query |-> NoneV, obj |-> NoneV, on |-> NoneV, op |-> "none", name |-> "",
      args |-> <<>>, index |-> 0, callers |-> 0, touched |-> FALSE,
      probed |-> FALSE, len |-> 0, origin |-> NoneV ]
\* Live mode before init: Report._live_mode_enabled is False (enabled),
\* live_server has no event loop (loop) and no connection (connections).
\* pending are the broadcast_update coroutines scheduled on the loop and not
\* started, sending the one that runs: its update and the connections it
\* has still to send to.  History: last tells what became of the last update
\* ("queued", "dropped" by queue_broadcast, or "warning": it could not be
\* built and a warning was printed), without is what the call in progress
\* stores and returns when live mode is off.
\* clients[c] is what subscriber c holds: the value groups and stack traces
\* of its snapshot with the updates it was sent merged in.  History: failed
\* tells that a send to c raised, aborted that a broadcast ended before it
\* reached c.
NoSending == [update |-> NoneV, to |-> {}]
Clients == {"c1", "c2"}
Nobody == "nobody"
NoClient ==
    [ logs |-> [s \in Sites |-> <<>>], dash |-> [s \in Sites |-> <<>>],
      traces |-> {}, failed |-> FALSE, aborted |-> FALSE ]
NoLive ==
    [ enabled |-> FALSE, loop |-> "none", pending |-> <<>>, connections |-> {},
      sending |-> NoSending, last |-> "none", without |-> NoneV,
      clients |-> [c \in Clients |-> NoClient] ]

\* The process after `import autopsy`: the exit hook is registered and
\* enabled (1390, 1447), nothing is written.  files is the sequence of the
\* files written, each with who wrote it and the export it holds; exited
\* tells that the interpreter has run its exit hooks.  History: file_current
\* tells that generate_html or generate_json has written a file and no
\* init(clear=True) has followed.
NewProcess ==
    [ atexit_enabled |-> TRUE, files |-> <<>>, exited |-> FALSE,
      file_current |-> FALSE ]

\* The history record of a completed observation call.
DoneRecord(t, f, enter, exit, out) ==
    [ thread |-> t, op |-> f.op, site |-> f.site, arg |-> f.arg, now |-> f.now,
      index |-> f.log_index, enter |-> enter, exit |-> exit,
      raised |-> IsRaise(out) ]

Waiting == {t \in Threads : pc[t] = "acquire" /\ frame[t].op \notin {"init", "export"}}

\* A thread calls an observation method; at most `max` calls between clears.
CallWithin(max, t, op, site, arg, now) ==
    /\ pc[t] = "idle"
    /\ entered + Cardinality(Waiting) < max
    /\ report' = ensure_initialized(report)
    /\ frame' = [frame EXCEPT ![t] = NewFrame(op, site, arg, now)]
    /\ pc' = [pc EXCEPT ![t] = "acquire"]
    /\ result' = NoResult
    /\ UNCHANGED <<lock, entered, clock, done, cleared>>
    /\ UNCHANGED outside

Call(t, op, site, arg, now) == CallWithin(MaxOps, t, op, site, arg, now)

Enter(t) ==
    /\ pc[t] = "acquire"
    /\ frame[t].op \notin {"init", "export"}
    /\ LockAvailable(t)
    /\ lock' = Acquire(lock, t)
    /\ LET o == step_enter(report, frame[t])
       IN  /\ report' = o.r
           /\ frame' = [frame EXCEPT ![t] = [o.f EXCEPT !.enter = clock + 1]]
    /\ pc' = [pc EXCEPT ![t] = "inside"]
    /\ entered' = entered + 1
    /\ clock' = clock + 1
    /\ result' = NoResult
    /\ UNCHANGED <<done, cleared>>
    /\ UNCHANGED outside

Middle(t) ==
    /\ pc[t] = "inside"
    /\ LET o == step_middle(report, frame[t])
       IN  /\ report' = o.r
           /\ frame' = [frame EXCEPT ![t] = o.f]
    /\ pc' = [pc EXCEPT ![t] = "stored"]
    /\ result' = NoResult
    /\ UNCHANGED <<lock, entered, clock, done, cleared>>
    /\ UNCHANGED outside

Finish(t) ==
    /\ pc[t] = "stored"
    /\ LET o == step_finish(report, frame[t])
       IN  /\ report' = o.r
           /\ result' = Returned(t, frame[t].op, o.out)
           /\ done' = Append(done, DoneRecord(t, o.f, frame[t].enter, clock + 1, o.out))
    /\ lock' = Release(lock)
    /\ frame' = [frame EXCEPT ![t] = NoFrame]
    /\ pc' = [pc EXCEPT ![t] = "idle"]
    /\ clock' = clock + 1
    /\ UNCHANGED <<entered, cleared>>
    /\ UNCHANGED outside

HasData(r) ==
    \/ \E s \in Sites : r.logs[s] # <<>> \/ r.dashboard_logs[s] # <<>>
    \/ r.log_index > 0

CallInit(t, config, clear) ==
    /\ pc[t] = "idle"
    /\ frame' = [frame EXCEPT ![t] = NewFrame("init", "none", InitArgs(config, clear), 0)]
    /\ pc' = [pc EXCEPT ![t] = "acquire"]
    /\ result' = NoResult
    /\ UNCHANGED <<report, lock, entered, clock, done, cleared>>
    /\ UNCHANGED outside

RunInit(t) ==
    /\ pc[t] = "acquire"
    /\ frame[t].op = "init"
    /\ LockAvailable(t)
    /\ report' = init(report, frame[t].arg.v.config, frame[t].arg.v.clear)
    /\ result' = Returned(t, "init", frame[t].arg)
    /\ IF frame[t].arg.v.clear
       THEN /\ entered' = 0
            /\ clock' = 0
            /\ done' = <<>>
            /\ cleared' = (cleared \/ HasData(report))
       ELSE UNCHANGED <<entered, clock, done, cleared>>
    /\ frame' = [frame EXCEPT ![t] = NoFrame]
    /\ pc' = [pc EXCEPT ![t] = "idle"]
    /\ UNCHANGED lock
    /\ UNCHANGED outside

CallExport(t) ==
    /\ pc[t] = "idle"
    /\ frame' = [frame EXCEPT ![t] = NewFrame("export", "none", NoneV, 0)]
    /\ pc' = [pc EXCEPT ![t] = "acquire"]
    /\ result' = NoResult
    /\ UNCHANGED <<report, lock, entered, clock, done, cleared>>
    /\ UNCHANGED outside

RunExport(t) ==
    /\ pc[t] = "acquire"
    /\ frame[t].op = "export"
    /\ LockAvailable(t)
    /\ result' = Returned(t, "export", to_json(report, frame[t].now))
    /\ report' = to_json_store(report)
    /\ frame' = [frame EXCEPT ![t] = NoFrame]
    /\ pc' = [pc EXCEPT ![t] = "idle"]
    /\ UNCHANGED <<lock, entered, clock, done, cleared>>
    /\ UNCHANGED outside

Init ==
    /\ report = NewReport
    /\ lock = [owner |-> NoThread, depth |-> 0]
    /\ pc = [t \in Threads |-> "idle"]
    /\ frame = [t \in Threads |-> NoFrame]
    /\ result = NoResult
    /\ entered = 0
    /\ clock = 0
    /\ done = <<>>
    /\ cleared = FALSE
    /\ callstack = NewCallStack
    /\ nav = NoNav
    /\ live = NoLive
    /\ process = NewProcess

\* The calls of init(config, clear): config is given when the caller starts
\* afresh, with auto_stack_trace off or on.
InitCalls ==
    {<<(<<>>), FALSE>>, <<(<<>>), TRUE>>,
     <<(<<ReportConfiguration(FALSE)>>), TRUE>>, <<(<<ReportConfiguration(TRUE)>>), TRUE>>}


Next ==
    \E t \in Threads :
        \/ Call(t, "log", TheSite, TupleV(<<CHOOSE x \in LogValues : TRUE>>), 0)
        \/ \E value \in ThreadCountValues : Call(t, "count", TheSite, value, 0)
        \/ Call(t, "hist", TheSite, IntV(1), 0)
        \/ Call(t, "timeline", TheSite, StrV("event"), 1)
        \/ Call(t, "happened", TheSite, NoneV, 0)
        \/ Enter(t)
        \/ Middle(t)
        \/ Finish(t)
        \/ \E call \in InitCalls : CallInit(t, call[1], call[2])
        \/ RunInit(t)
        \/ CallExport(t)
        \/ RunExport(t)

Spec == Init /\ [][Next]_vars

(***************************************************************************)
(* One caller.  A call runs from its first statement to its return in one  *)
(* step, so the store is seen only between calls.                          *)
(***************************************************************************)
Main == "t1"

run_call(r, f) ==
    LET a == step_enter(r, f)
        b == step_middle(a.r, a.f)
    IN  step_finish(b.r, b.f)

\* The caller's CallStack object after a call that was given it as a value.
CallStackAfter(f, cs) ==
    IF f.op = "log" /\ CallStackArgs(f) # {}
    THEN f.arg.v[CHOOSE i \in CallStackArgs(f) : TRUE].v
    ELSE cs

WholeCall(op, site, arg, now) ==
    /\ Len(done) < MaxSeqOps
    /\ LET o == run_call(ensure_initialized(report), NewFrame(op, site, arg, now))
       IN  /\ report' = o.r
           /\ result' = Returned(Main, op, o.out)
           /\ done' = Append(done, DoneRecord(Main, o.f, clock + 1, clock + 2, o.out))
           /\ callstack' = CallStackAfter(o.f, callstack)
    /\ entered' = entered + 1
    /\ clock' = clock + 2
    /\ UNCHANGED <<lock, pc, frame, cleared, nav, live, process>>

WholeInit(config, clear) ==
    /\ report' = init(report, config, clear)
    /\ result' = Returned(Main, "init", InitArgs(config, clear))
    /\ IF clear
       THEN /\ entered' = 0
            /\ clock' = 0
            /\ done' = <<>>
            /\ cleared' = (cleared \/ HasData(report))
       ELSE UNCHANGED <<entered, clock, done, cleared>>
    /\ UNCHANGED <<lock, pc, frame>>
    /\ UNCHANGED outside

WholeExport(now) ==
    /\ result' = [Returned(Main, "export", to_json(report, now))
                     EXCEPT !.repeated = (result.op = "export")]
    /\ report' = to_json_store(report)
    /\ UNCHANGED <<lock, pc, frame, entered, clock, done, cleared>>
    /\ UNCHANGED outside

NextCount ==
    \/ \E site \in Sites, value \in CountValues : WholeCall("count", site, value, 0)
    \/ \E call \in InitCalls : WholeInit(call[1], call[2])
    \/ WholeExport(0)

SpecCount == Init /\ [][NextCount]_vars

NextDash ==
    \/ \E site \in Sites, message \in Messages : WholeCall("happened", site, message, 0)
    \/ \E now \in 1..MaxTime : WholeCall("timeline", TheSite, StrV("event"), now)
    \/ WholeCall("hist", TheSite, IntV(1), 0)
    \/ \E value \in LogValues : WholeCall("log", TheSite, TupleV(<<value>>), 0)
    \/ \E call \in InitCalls : WholeInit(call[1], call[2])
    \/ WholeExport(0)

SpecDash == Init /\ [][NextDash]_vars

\* cs = call_stack(): the caller replaces its CallStack by a new one.
MaxCallStacks == 2
MakeCallStack ==
    /\ callstack.id.n < MaxCallStacks
    /\ callstack' = CallStackAt(ObjectId("user", callstack.id.n + 1), TheSite)
    /\ result' = NoResult
    /\ UNCHANGED <<report, lock, pc, frame, entered, clock, done, cleared, nav, live,
                 process>>

\* One caller logs its CallStack object and other values, with and without
\* auto_stack_trace.
NextTrace ==
    \/ \E site \in Sites :
          WholeCall("log", site, TupleV(<<StrV("a"), CallStackV(callstack)>>), 0)
    \/ WholeCall("log", TheSite, TupleV(<<IntV(1)>>), 0)
    \/ WholeCall("hist", TheSite, IntV(1), 0)
    \/ MakeCallStack
    \/ \E call \in InitCalls : WholeInit(call[1], call[2])
    \/ WholeExport(0)

SpecTrace == Init /\ [][NextTrace]_vars

\* Two threads log and add to histograms at two call sites, and export.
MaxSiteOps == 3
NextSites ==
    \E t \in Threads :
        \/ \E site \in Sites :
              CallWithin(MaxSiteOps, t, "log", site, TupleV(<<IntV(1)>>), 0)
        \/ \E site \in Sites : CallWithin(MaxSiteOps, t, "hist", site, IntV(1), 0)
        \/ Enter(t)
        \/ Middle(t)
        \/ Finish(t)
        \/ CallExport(t)
        \/ RunExport(t)

SpecSites == Init /\ [][NextSites]_vars

\* The codecs applied to values nested in up to MaxNest lists.
MaxNest == DefaultMaxDepth + 1
\* The nesting of the values given to the codecs without a depth bound.
MaxPlainNest == 1
RECURSIVE Nest(_, _)
Nest(n, leaf) == IF n = 0 THEN leaf ELSE ListV(<<Nest(n - 1, leaf)>>)
CodecLeaves ==
    {IntV(1), StrV("a"), FloatV("1.5"), FunctionV, Tuple12, List12, DictAB,
     SelfRefV, OuterV}
Codecs == {"_serialize_to_json", "to_json_serializable", "_to_json_serializable"}
Canonical(codec, value) ==
    CASE codec = "_serialize_to_json" -> serialize_to_json(value, {}, DefaultMaxDepth)
      [] codec = "to_json_serializable" -> json_utils_to_json_serializable(value)
      [] codec = "_to_json_serializable" -> to_json_serializable(value)

\* The caller applies a codec to a value.
Canonicalize(codec, value) ==
    /\ result' = Returned(Main, codec, Canonical(codec, value))
    /\ done' = <<DoneRecord(Main, NewFrame(codec, "none", value, 0), 0, 0,
                            Canonical(codec, value))>>
    /\ UNCHANGED <<report, lock, pc, frame, entered, clock, cleared>>
    /\ UNCHANGED outside

NextCodec ==
    \/ \E n \in 0..MaxNest, leaf \in CodecLeaves :
          Canonicalize("_serialize_to_json", Nest(n, leaf))
    \/ \E n \in 0..MaxPlainNest, leaf \in CodecLeaves :
          Canonicalize("to_json_serializable", Nest(n, leaf))
    \/ \E n \in 0..MaxPlainNest, leaf \in CodecLeaves :
          Canonicalize("_to_json_serializable", Nest(n, leaf))

SpecCodec == Init /\ [][NextCodec]_vars

\* One caller; floats, non-finite ones among them, are added to a
\* histogram, logged and counted.
NextFloat ==
    \/ \E num \in HistValues : WholeCall("hist", TheSite, num, 0)
    \/ \E value \in FloatLogValues : WholeCall("log", TheSite, TupleV(<<value>>), 0)
    \/ \E value \in FloatCountValues : WholeCall("count", TheSite, value, 0)
    \/ WholeInit(<<>>, TRUE)
    \/ WholeExport(0)

SpecFloat == Init /\ [][NextFloat]_vars

\* One caller; to_json() is called at several times.
NextExport ==
    \/ \E now \in 1..MaxTime : WholeCall("timeline", TheSite, StrV("event"), now)
    \/ \E value \in LogValues : WholeCall("log", TheSite, TupleV(<<value>>), 0)
    \/ WholeCall("count", TheSite, Tuple12, 0)
    \/ WholeInit(<<>>, TRUE)
    \/ \E now \in 1..MaxTime : WholeExport(now)

SpecExport == Init /\ [][NextExport]_vars

(***************************************************************************)
(* The navigation of a CallStack of 0..MaxFrames frames by one caller.     *)
(***************************************************************************)
MaxFrames == 2
\* The longest expression: attribute accesses and calls after its start.
MaxChain == 3
AttrNames == {"caller", "value", "error", "is_ok", "is_err", "variable", "function"}
CallArgs == {<<>>, <<"x">>}
\* A CallStack of n frames; "x" is a local of every other frame.
CallStackOf(n) ==
    [ NewCallStack EXCEPT !.frames =
        [i \in 1..n |-> FrameInfo("a.py:" \o ToString(i), "f" \o ToString(i),
                                  IF i % 2 = 1 THEN {"x"} ELSE {})] ]
\* What an AutopsyResult is constructed from.
ResultValues == {NoneV, IntV(0), FrameV(FrameInfo("a.py:1", "f1", {"x"}))}
ResultErrors == {NoneV, ErrorInfo("failed", [reason |-> "given"])}

\* The error a value carries: of an Err result, of a proxy of one.
ErrorOf(x) ==
    CASE x.t = "AutopsyResult" -> x.error
      [] x.t = "_AttributeProxy" -> x.result.error
      [] OTHER -> NoneV
\* The query that the operation `name` on `on` resolves (name is "()" for a
\* call): an attribute access other than .caller and the methods, or the
\* call of a method of the query.
Resolved(on, name) ==
    CASE on.t = "FrameQuery"
           /\ name \notin {"()", "caller", "is_ok", "is_err", "variable"} -> on
      [] on.t = "method" /\ name = "()" /\ on.self.t = "FrameQuery" -> on.self
      [] OTHER -> NoneV
\* The error of the first failed resolution of an expression that goes on
\* with the operation `name` on `on`, which gave `out`.
Origin(on, name, out) ==
    LET q == Resolved(on, name)
    IN  IF ~IsNone(nav.origin) /\ nav.len > 0 THEN nav.origin
        ELSE IF ~IsNone(q) /\ is_err(FrameQuery_resolve(callstack, q))
        THEN FrameQuery_resolve(callstack, q).error
        ELSE ErrorOf(out)

NavUnchanged ==
    UNCHANGED <<report, lock, pc, frame, result, entered, clock, done, cleared,
                callstack, live, process>>

\* q = cs.current
NavCurrent ==
    /\ nav' = [NoNav EXCEPT !.query = getattr(callstack, CallStackV(callstack), "current"),
                            !.obj = getattr(callstack, CallStackV(callstack), "current"),
                            !.op = "current"]
    /\ NavUnchanged

\* q = cs.caller, or q = q.caller when the caller holds a query.
NavCaller ==
    /\ nav.callers < MaxFrames + 2
    /\ LET of == IF IsNone(nav.query) THEN CallStackV(callstack) ELSE nav.query
           q == getattr(callstack, of, "caller")
       IN  nav' = [NoNav EXCEPT !.query = q, !.obj = q, !.op = "caller",
                                !.callers = nav.callers + 1,
                                !.probed = nav.probed \/ nav.touched]
    /\ NavUnchanged

\* The caller starts another expression at the query it holds.
NavAgain ==
    /\ ~IsNone(nav.query)
    /\ nav.len > 0
    /\ nav' = [nav EXCEPT !.obj = nav.query, !.on = NoneV, !.op = "again",
                          !.name = "", !.args = <<>>, !.index = 0, !.len = 0,
                          !.origin = NoneV]
    /\ NavUnchanged

\* cs.frame(frame_index)
NavFrame(frame_index) ==
    /\ LET out == CallStack_frame(callstack, frame_index)
       IN  nav' = [nav EXCEPT !.obj = out, !.on = NoneV, !.op = "frame",
                              !.name = "", !.args = <<>>, !.index = frame_index,
                              !.len = 1, !.origin = ErrorOf(out)]
    /\ NavUnchanged

\* AutopsyResult(value, error)
NavConstruct(value, error) ==
    /\ LET out == AutopsyResult(value, error)
       IN  nav' = [nav EXCEPT !.obj = out, !.on = NoneV, !.op = "construct",
                              !.name = "", !.args = <<value, error>>, !.index = 0,
                              !.len = 1,
                              !.origin = IF IsRaise(out) THEN NoneV ELSE ErrorOf(out)]
    /\ NavUnchanged

CanGoOn == nav.obj.t \notin {"none", "raise"} /\ nav.len < MaxChain

\* obj.name
NavGetAttr(name) ==
    /\ CanGoOn
    /\ LET out == getattr(callstack, nav.obj, name)
       IN  nav' = [nav EXCEPT !.obj = out, !.on = nav.obj, !.op = "getattr",
                              !.name = name, !.args = <<>>, !.index = 0,
                              !.len = nav.len + 1, !.touched = TRUE,
                              !.origin = Origin(nav.obj, name, out)]
    /\ NavUnchanged

\* obj(*args)
NavCall(args) ==
    /\ CanGoOn
    /\ LET out == call_object(callstack, nav.obj, args)
       IN  nav' = [nav EXCEPT !.obj = out, !.on = nav.obj, !.op = "call",
                              !.name = "", !.args = args, !.index = 0,
                              !.len = nav.len + 1, !.touched = TRUE,
                              !.origin = Origin(nav.obj, "()", out)]
    /\ NavUnchanged

InitNav ==
    /\ report = NewReport
    /\ lock = [owner |-> NoThread, depth |-> 0]
    /\ pc = [t \in Threads |-> "idle"]
    /\ frame = [t \in Threads |-> NoFrame]
    /\ result = NoResult
    /\ entered = 0
    /\ clock = 0
    /\ done = <<>>
    /\ cleared = FALSE
    /\ callstack \in {CallStackOf(n) : n \in 0..MaxFrames}
    /\ nav = NoNav
    /\ live = NoLive
    /\ process = NewProcess

NextNav ==
    \/ NavCurrent
    \/ NavCaller
    \/ NavAgain
    \/ \E frame_index \in -1..(MaxFrames + 1) : NavFrame(frame_index)
    \/ \E value \in ResultValues, error \in ResultErrors : NavConstruct(value, error)
    \/ \E name \in AttrNames : NavGetAttr(name)
    \/ \E args \in CallArgs : NavCall(args)

SpecNav == InitNav /\ [][NextNav]_vars

(***************************************************************************)
(* Live mode.  init(config) with live_mode starts the server thread        *)
(* (report.py 805-816, live_server.py 93-137); an observation call builds  *)
(* an update and hands it to queue_broadcast while it holds the lock; the  *)
(* event loop of the server thread runs broadcast_update for each update.  *)
(***************************************************************************)
\* How start_server can go: importing live_server raises (fastapi is
\* missing), uvicorn is missing, or the server thread is started.
StartOutcomes == {"ImportError", "no_uvicorn", "started"}

\* report.py 805-816 with config.live_mode set.  After "started" the thread
\* has yet to create the loop and run it.
start_live(l, outcome) ==
    IF l.enabled THEN l
    ELSE CASE outcome = "ImportError" -> [l EXCEPT !.enabled = FALSE]
           [] outcome = "no_uvicorn" -> [l EXCEPT !.enabled = TRUE]
           [] outcome = "started" -> [l EXCEPT !.enabled = TRUE, !.loop = "starting"]

\* The update of a count, hist, timeline or happened call (1304-1358), or
\* the exception that building it raises: the counted value is converted
\* unguarded (1315-1318).
\* The value group is built from the dashboard log just appended as to_json
\* builds it (1304-1326), the stack trace is the one stored under its id
\* (1341-1358).
update_stack_trace(r, stack_trace_id) ==
    IF stack_trace_id # NoTraceId /\ stack_trace_id \in DOMAIN r.stack_traces
    THEN {[id |-> ToString(stack_trace_id),
           frames |-> r.stack_traces[stack_trace_id].frames]}
    ELSE {}

dashboard_update(r, f) ==
    LET dashboard_log == r.dashboard_logs[f.site][Len(r.dashboard_logs[f.site])]
        value_group == export_dashboard_log(dashboard_log)
    IN  IF IsRaise(value_group.value) THEN value_group.value
        ELSE [ t |-> "update", type |-> f.op, call_site |-> f.site,
               value_group |-> value_group,
               stack_trace |-> update_stack_trace(r, dashboard_log.stack_trace_id) ]

\* The update of a log call (1206-1282), built from the group just appended:
\* each value as the export gives it.
log_update(r, f) ==
    LET log_group == r.logs[f.site][Len(r.logs[f.site])]
    IN  [ t |-> "update", type |-> "log", call_site |-> f.site,
          value_group |-> export_log_group(log_group),
          stack_trace |-> update_stack_trace(r, f.stack_trace_id) ]

\* live_server.queue_broadcast (153-167): with a running loop the coroutine
\* is scheduled, else nothing is done.
queue_broadcast(l, update) ==
    IF l.loop = "running"
    THEN [l EXCEPT !.pending = Append(@, update), !.last = "queued"]
    ELSE [l EXCEPT !.last = "dropped"]

\* Faulty variant: the caller waits for the result of the scheduled
\* coroutine.
queue_broadcast_returns_when_sent(l) ==
    l.pending = <<>> /\ l.sending = NoSending

\* asyncio.run_coroutine_threadsafe returns at once and its future is let
\* go (165-167): queue_broadcast returns whatever the loop does.
queue_broadcast_returns(l) == TRUE

\* _broadcast_log_update and _broadcast_dashboard_update: nothing without
\* live mode; an exception from building or queuing is printed as a warning
\* (1286-1287, 1362-1364).
broadcast(r, l, f) ==
    IF ~l.enabled THEN [live |-> l, out |-> NoneV]
    ELSE LET update == IF f.op = "log" THEN log_update(r, f)
                       ELSE dashboard_update(r, f)
         IN  IF IsRaise(update)
             THEN [live |-> [l EXCEPT !.last = "warning"], out |-> NoneV]
             ELSE [live |-> queue_broadcast(l, update), out |-> NoneV]

\* The statements of a call up to its broadcast: log appends its group
\* first (428-450), the others broadcast before their aggregate (540-541).
step_queue(r, l, f) ==
    LET a == IF f.op = "log" THEN log_append(r, f)
             ELSE [r |-> r, f |-> f, out |-> NoneV]
        b == broadcast(a.r, l, a.f)
    IN  [ r |-> a.r, live |-> b.live,
          f |-> [a.f EXCEPT !.out = IF IsRaise(b.out) THEN b.out ELSE a.out] ]

\* The statements after the broadcast: none for log, the aggregate for the
\* others.
step_return(r, f) ==
    IF f.op = "log" \/ IsRaise(f.out) THEN [r |-> r, f |-> f, out |-> f.out]
    ELSE step_finish(r, f)

MaxLiveOps == 2
Subscribers == {"s1"}

\* init(ReportConfiguration(live_mode=True)).
LiveInit(outcome) ==
    /\ pc[Main] = "idle"
    /\ report' = init(report, <<LiveConfiguration(TRUE, TRUE)>>, FALSE)
    /\ live' = start_live(live, outcome)
    /\ result' = Returned(Main, "init", InitArgs(<<LiveConfiguration(TRUE, TRUE)>>, FALSE))
    /\ UNCHANGED <<lock, pc, frame, entered, clock, done, cleared, callstack, nav,
                 process>>

LiveCall(op, site, arg, now) ==
    /\ pc[Main] = "idle"
    /\ entered < MaxLiveOps
    /\ report' = ensure_initialized(report)
    /\ frame' = [frame EXCEPT ![Main] = NewFrame(op, site, arg, now)]
    /\ pc' = [pc EXCEPT ![Main] = "acquire"]
    /\ result' = NoResult
    /\ LET o == run_call(ensure_initialized(report), NewFrame(op, site, arg, now))
       IN  live' = [live EXCEPT !.without = [r |-> o.r, out |-> o.out]]
    /\ UNCHANGED <<lock, entered, clock, done, cleared, callstack, nav, process>>

LiveQueue(t) ==
    /\ pc[t] = "stored"
    /\ LET o == step_queue(report, live, frame[t])
       IN  /\ report' = o.r
           /\ live' = o.live
           /\ frame' = [frame EXCEPT ![t] = o.f]
    /\ pc' = [pc EXCEPT ![t] = "queued"]
    /\ result' = NoResult
    /\ UNCHANGED <<lock, entered, clock, done, cleared, callstack, nav, process>>

LiveFinish(t) ==
    /\ pc[t] = "queued"
    /\ queue_broadcast_returns(live)
    /\ LET o == step_return(report, frame[t])
       IN  /\ report' = o.r
           /\ result' = Returned(t, frame[t].op, o.out)
           /\ done' = Append(done, DoneRecord(t, o.f, frame[t].enter, clock + 1, o.out))
    /\ lock' = Release(lock)
    /\ frame' = [frame EXCEPT ![t] = NoFrame]
    /\ pc' = [pc EXCEPT ![t] = "idle"]
    /\ clock' = clock + 1
    /\ UNCHANGED <<entered, cleared, outside>>

OnlyLive == UNCHANGED <<report, lock, pc, frame, result, entered, clock, done,
                        cleared, callstack, nav, process>>

\* The server thread: run_server creates the loop and runs it (108-120).
LoopRun ==
    /\ live.loop = "starting"
    /\ live' = [live EXCEPT !.loop = "running"]
    /\ OnlyLive

\* server.serve() completes: the loop stops, and what is scheduled on it is
\* never run.
LoopStop ==
    /\ live.loop = "running"
    /\ live' = [live EXCEPT !.loop = "stopped"]
    /\ OnlyLive

\* websocket_endpoint (27-54): a subscriber connects; the snapshot it is sent
\* is report.to_json(), which takes the lock of the store.
Connect(s) ==
    /\ live.loop = "running"
    /\ s \notin live.connections
    /\ LockAvailable("loop")
    /\ live' = [live EXCEPT !.connections = @ \cup {s}]
    /\ OnlyLive

\* broadcast_update (57-73) starts on the first update scheduled.
StartSend ==
    /\ live.loop = "running"
    /\ live.sending = NoSending
    /\ live.pending # <<>>
    /\ live' = [live EXCEPT !.pending = Tail(@),
                            !.sending = IF live.connections = {} THEN NoSending
                                        ELSE [update |-> Head(live.pending),
                                              to |-> live.connections]]
    /\ OnlyLive

\* await connection.send_json(update) completes (67), or raises and the
\* connection is discarded (68-73).  A subscriber that stalls never lets it
\* complete.
Send(s, fails) ==
    /\ live.loop = "running"
    /\ s \in live.sending.to
    /\ live' = [live EXCEPT !.sending = IF live.sending.to = {s} THEN NoSending
                                        ELSE [@ EXCEPT !.to = @ \ {s}],
                            !.connections = IF fails THEN @ \ {s} ELSE @]
    /\ OnlyLive

CallerStep ==
    \/ Enter(Main)
    \/ Middle(Main)
    \/ LiveQueue(Main)
    \/ LiveFinish(Main)

NextLive ==
    \/ \E outcome \in StartOutcomes : LiveInit(outcome)
    \/ \E value \in {IntV(1), SelfRefV} : LiveCall("count", TheSite, value, 0)
    \/ \E value \in {IntV(1), SelfRefV} : LiveCall("log", TheSite, TupleV(<<value>>), 0)
    \/ CallerStep
    \/ LoopRun
    \/ LoopStop
    \/ \E s \in Subscribers : Connect(s)
    \/ StartSend
    \/ \E s \in Subscribers, fails \in BOOLEAN : Send(s, fails)

\* The caller's thread is scheduled: a step of its call that can be taken is
\* taken.  Nothing is assumed of the server thread or of the subscribers.
SpecLive == Init /\ [][NextLive]_vars /\ WF_vars(CallerStep)

(***************************************************************************)
(* The sink and its subscribers.  One caller makes whole calls in live     *)
(* mode; the event loop runs websocket_endpoint for each subscriber and    *)
(* broadcast_update for each update, one broadcast at a time.              *)
(***************************************************************************)
\* A whole observation call with its broadcast.
run_live_call(r, l, f) ==
    LET a == step_enter(r, f)
        b == step_middle(a.r, a.f)
        q == step_queue(b.r, l, b.f)
        o == step_return(q.r, q.f)
    IN  [r |-> o.r, live |-> q.live, f |-> o.f, out |-> o.out]

\* The stack traces of an export as the records an update carries.
snapshot_traces(e) ==
    {[id |-> k, frames |-> e.stack_traces[k].frames] : k \in DOMAIN e.stack_traces}

\* The subscriber takes the snapshot as its state.
merge_snapshot(e) ==
    [ logs |-> e.call_sites, dash |-> e.dashboard_call_sites,
      traces |-> snapshot_traces(e), failed |-> FALSE, aborted |-> FALSE ]

\* The subscriber merges an update: the value group is added to the groups
\* of its call site, the stack trace to the stack traces.
merge_update(client, update) ==
    LET merged == IF update.type = "log"
                  THEN [client EXCEPT !.logs[update.call_site] =
                                          Append(@, update.value_group)]
                  ELSE [client EXCEPT !.dash[update.call_site] =
                                          Append(@, update.value_group)]
    IN  [merged EXCEPT !.traces = @ \cup update.stack_trace]

MaxSinkOps == 2

SinkCall(op, site, arg, now) ==
    /\ entered < MaxSinkOps
    /\ LET o == run_live_call(ensure_initialized(report), live,
                              NewFrame(op, site, arg, now))
       IN  /\ report' = o.r
           /\ live' = o.live
           /\ result' = Returned(Main, op, o.out)
           /\ done' = Append(done, DoneRecord(Main, o.f, clock + 1, clock + 2, o.out))
    /\ entered' = entered + 1
    /\ clock' = clock + 2
    /\ UNCHANGED <<lock, pc, frame, cleared, callstack, nav, process>>

\* websocket_endpoint up to its first await after accept (33-42): the
\* connection is added, the snapshot is taken and sent.  What is sent to a
\* connection arrives in the order of the sends, so the snapshot is the
\* first thing the subscriber holds.
SinkConnect(c) ==
    /\ live.loop = "running"
    /\ c \notin live.connections
    /\ ~ExportRaises(report)
    /\ live' = [live EXCEPT !.connections = @ \cup {c},
                            !.clients[c] = merge_snapshot(to_json(report, 0))]
    /\ OnlyLive

\* receive_text raises WebSocketDisconnect (46-49): the subscriber has gone.
SinkDisconnect(c) ==
    /\ c \in live.connections
    /\ live' = [live EXCEPT !.connections = @ \ {c}, !.clients[c] = NoClient]
    /\ OnlyLive

\* The iteration `for connection in connections` (65): start is the set when
\* the iteration began, seen the connections it has yielded, current the one
\* being sent to.
Iteration(update, start, current) ==
    [ update |-> update, start |-> start, seen |-> {current},
      current |-> current, disconnected |-> {} ]

\* broadcast_update starts on the first update scheduled and reaches its
\* first await (64-67); with no connection it returns.
SinkStart(first) ==
    /\ live.loop = "running"
    /\ live.sending = NoSending
    /\ live.pending # <<>>
    /\ IF live.connections = {}
       THEN /\ first = Nobody
            /\ live' = [live EXCEPT !.pending = Tail(@)]
       ELSE /\ first \in live.connections
            /\ live' = [live EXCEPT
                          !.pending = Tail(@),
                          !.sending = Iteration(Head(live.pending),
                                                live.connections, first)]
    /\ OnlyLive

\* What the set iterator yields next.  A set whose size differs from the
\* size at the start makes it raise RuntimeError; otherwise it yields the
\* connections of the start that are still in the set and not yet yielded,
\* and it may or may not yield one that was added since.
IterationRaises(l) == Cardinality(l.connections) # Cardinality(l.sending.start)
MustYield(l) == (l.sending.start \cap l.connections) \ l.sending.seen
MayYield(l) == l.connections \ l.sending.seen

\* The send to the current connection completes or raises (66-69), and the
\* loop goes on: RuntimeError from the iterator ends the coroutine, the next
\* connection is sent to, or the failed connections are discarded (71-73).
after_send(l, fails, next) ==
    LET i == l.sending
        sent == IF fails
                THEN [l EXCEPT !.clients[i.current].failed = TRUE,
                               !.sending.disconnected = @ \cup {i.current}]
                ELSE IF i.current \in l.connections
                THEN [l EXCEPT !.clients[i.current] = merge_update(@, i.update)]
                ELSE l
    IN  IF IterationRaises(l)
        THEN [sent EXCEPT !.sending = NoSending,
                          !.clients = [c \in Clients |->
                                         IF c \in l.connections \ i.seen
                                         THEN [@[c] EXCEPT !.aborted = TRUE]
                                         ELSE @[c]]]
        ELSE IF next = Nobody
        THEN [sent EXCEPT !.sending = NoSending,
                          !.connections = @ \ sent.sending.disconnected]
        ELSE [sent EXCEPT !.sending.seen = @ \cup {next},
                          !.sending.current = next]

SinkSent(fails, next) ==
    /\ live.loop = "running"
    /\ live.sending # NoSending
    /\ IF IterationRaises(live) THEN next = Nobody
       ELSE IF next = Nobody THEN MustYield(live) = {}
       ELSE next \in MayYield(live)
    /\ live' = after_send(live, fails, next)
    /\ OnlyLive

NextSink ==
    \/ LiveInit("started")
    \/ LoopRun
    \/ SinkCall("log", TheSite, TupleV(<<IntV(1)>>), 0)
    \/ SinkCall("count", TheSite, IntV(1), 0)
    \/ \E c \in Clients : SinkConnect(c)
    \/ \E c \in Clients : SinkDisconnect(c)
    \/ \E first \in Clients \cup {Nobody} : SinkStart(first)
    \/ \E fails \in BOOLEAN, next \in Clients \cup {Nobody} : SinkSent(fails, next)

SpecSink == Init /\ [][NextSink]_vars

(***************************************************************************)
(* The process-level hooks of report.py: set_atexit_enabled, the exit      *)
(* hook, generate_html and generate_json.                                  *)
(***************************************************************************)
NoPath == "None"

\* The data the exit hook looks for (1430-1433): logs, dashboard logs,
\* timeline events, happened entries.
exit_data(r) ==
    \/ \E s \in Sites : r.logs[s] # <<>>
    \/ \E s \in Sites : r.dashboard_logs[s] # <<>>
    \/ r.timeline # <<>>
    \/ \E s \in Sites : r.happened[s].count > 0

\* output_file.write_text (1500, 1531): the file holds the export.
write_text(p, by, output_path, report_data) ==
    [p EXCEPT !.files = Append(@, [by |-> by, path |-> output_path,
                                   data |-> report_data])]

\* generate_html and generate_json (1450-1536): the export is taken; with an
\* output path the file is written and the report is marked as written.
\* An export that raises leaves both alone.
generate(r, p, by, output_path, now) ==
    LET report_data == to_json(r, now)
    IN  IF IsRaise(report_data) THEN [r |-> r, p |-> p, out |-> report_data]
        ELSE IF output_path = NoPath THEN [r |-> r, p |-> p, out |-> report_data]
        ELSE [ r |-> [r EXCEPT !.written = TRUE],
               p |-> [write_text(p, by, output_path, report_data)
                         EXCEPT !.file_current = TRUE],
               out |-> report_data ]

\* Faulty variant: a report already written is written again.
atexit_handler_ignores_written(r, p, now) ==
    IF \/ ~p.atexit_enabled
       \/ ~r.initialized
       \/ r.config.live_mode
       \/ ~exit_data(r)
    THEN [r |-> r, p |-> p]
    ELSE LET g == generate(r, p, "atexit", "autopsy_report.html", now)
         IN  [r |-> g.r, p |-> g.p]

\* _atexit_handler (1405-1443); what generate_html raises is printed as a
\* warning.
atexit_handler(r, p, now) ==
    IF \/ ~p.atexit_enabled
       \/ ~r.initialized
       \/ r.written
       \/ r.config.live_mode
       \/ ~exit_data(r)
    THEN [r |-> r, p |-> p]
    ELSE LET g == generate(r, p, "atexit", "autopsy_report.html", now)
         IN  [r |-> g.r, p |-> g.p]

MaxExitOps == 2
MaxFiles == 2

\* init(ReportConfiguration(live_mode=...), clear=...): the store's init,
\* then the server start of lines 805-816 when the configuration asks for it.
ExitInit(live_mode, clear, outcome) ==
    /\ ~process.exited
    /\ report' = init(report, <<LiveConfiguration(TRUE, live_mode)>>, clear)
    /\ live' = IF live_mode THEN start_live(live, outcome) ELSE live
    /\ process' = IF clear THEN [process EXCEPT !.file_current = FALSE] ELSE process
    /\ result' = NoResult
    /\ UNCHANGED <<lock, pc, frame, entered, clock, done, cleared, callstack, nav>>

\* An observation call, with its push when live mode is on.
ExitCall(op, site, arg, now) ==
    /\ ~process.exited
    /\ entered < MaxExitOps
    /\ LET o == run_live_call(ensure_initialized(report), live,
                              NewFrame(op, site, arg, now))
       IN  /\ report' = o.r
           /\ live' = o.live
           /\ result' = Returned(Main, op, o.out)
    /\ entered' = entered + 1
    /\ UNCHANGED <<lock, pc, frame, clock, done, cleared, callstack, nav, process>>

SetAtexitEnabled(enabled) ==
    /\ ~process.exited
    /\ process' = [process EXCEPT !.atexit_enabled = enabled]
    /\ result' = NoResult
    /\ UNCHANGED <<report, lock, pc, frame, entered, clock, done, cleared,
                   callstack, nav, live>>

Generate(by, output_path, now) ==
    /\ ~process.exited
    /\ Len(process.files) < MaxFiles
    /\ LET g == generate(report, process, by, output_path, now)
       IN  /\ report' = g.r
           /\ process' = g.p
           /\ result' = Returned(Main, by, NoneV)
    /\ UNCHANGED <<lock, pc, frame, entered, clock, done, cleared, callstack,
                   nav, live>>

\* The interpreter exits and runs the registered hook.
AtExit(now) ==
    /\ ~process.exited
    /\ LET h == atexit_handler(report, process, now)
       IN  /\ report' = h.r
           /\ process' = [h.p EXCEPT !.exited = TRUE]
    /\ result' = NoResult
    /\ UNCHANGED <<lock, pc, frame, entered, clock, done, cleared, callstack,
                   nav, live>>

\* The live server's packages are not installed: a start fails (813-816).
NextExit ==
    \/ \E live_mode \in BOOLEAN, clear \in BOOLEAN :
          ExitInit(live_mode, clear, "ImportError")
    \/ ExitCall("log", TheSite, TupleV(<<IntV(1)>>), 0)
    \/ ExitCall("count", TheSite, IntV(1), 0)
    \/ \E enabled \in BOOLEAN : SetAtexitEnabled(enabled)
    \/ \E by \in {"generate_html", "generate_json"},
          output_path \in {NoPath, "report.out"} : Generate(by, output_path, 0)
    \/ AtExit(0)

SpecExit == Init /\ [][NextExit]_vars

\* Re-initialization with and without live mode, every way the start can
\* go, and the observations that follow.
NextMode ==
    \/ \E live_mode \in BOOLEAN, outcome \in StartOutcomes :
          ExitInit(live_mode, FALSE, outcome)
    \/ LoopRun
    \/ ExitCall("log", TheSite, TupleV(<<IntV(1)>>), 0)
    \/ ExitCall("count", TheSite, IntV(1), 0)

SpecMode == Init /\ [][NextMode]_vars

\* The calls of test_dashboard_init_clears_data (test_dashboard.py 338-359):
\* count, hist, timeline and happened in any order, init() and init(clear=
\* True), and the export.
MaxReinitOps == 4

ReinitCall(op, arg, now) ==
    /\ entered < MaxReinitOps
    /\ LET o == run_call(ensure_initialized(report), NewFrame(op, TheSite, arg, now))
       IN  /\ report' = o.r
           /\ result' = Returned(Main, op, o.out)
    /\ entered' = entered + 1
    /\ UNCHANGED <<lock, pc, frame, clock, done, cleared, outside>>

NextReinit ==
    \/ ReinitCall("count", StrV("value"), 0)
    \/ ReinitCall("hist", IntV(1), 0)
    \/ ReinitCall("timeline", StrV("event"), 1)
    \/ ReinitCall("happened", NoneV, 0)
    \/ \E clear \in BOOLEAN : WholeInit(<<>>, clear)
    \/ WholeExport(0)

SpecReinit == Init /\ [][NextReinit]_vars

(***************************************************************************)
(* log() re-entered on the same thread: pickle.dumps(value) (423) runs the *)
(* __reduce__ of the value, which may call log() itself; the reentrant     *)
(* lock lets the nested call in.                                           *)
(***************************************************************************)
\* An object whose __reduce__ calls log(inner) at InnerSite and pickles.
LoggingV(inner) == [t |-> "logging", v |-> inner]
InnerSite == "a.py:2"

\* The store after the values are pickled in order: each value whose
\* __reduce__ logs makes one whole nested log call.
RECURSIVE pickle_reenters(_, _)
pickle_reenters(r, values) ==
    IF values = <<>> THEN r
    ELSE LET nested == run_call(r, NewFrame("log", InnerSite,
                                            TupleV(<<Head(values).v>>), 0))
         IN  pickle_reenters(IF Head(values).t = "logging" THEN nested.r ELSE r,
                             Tail(values))

\* log() whole, with what pickling its values does to the store between the
\* capture (407-414) and the building of the group (428-442).
reentrant_log(r, f) ==
    LET a == log_capture(r, f)
        b == log_serialize(pickle_reenters(a.r, a.f.arg.v), a.f)
    IN  log_append(b.r, b.f)

MaxReentrantOps == 3
\* The argument lists of the log() calls.
ReentrantArgs ==
    {<<IntV(1)>>, <<LoggingV(IntV(2))>>, <<LoggingV(IntV(2)), LoggingV(IntV(3))>>}

ReentrantLog(values) ==
    /\ entered < MaxReentrantOps
    /\ LET o == reentrant_log(ensure_initialized(report),
                              NewFrame("log", TheSite, TupleV(values), 0))
       IN  /\ report' = o.r
           /\ result' = Returned(Main, "log", o.out)
    /\ entered' = entered + 1
    /\ UNCHANGED <<lock, pc, frame, clock, done, cleared, outside>>

NextReentrant ==
    \/ \E values \in ReentrantArgs : ReentrantLog(values)
    \/ ReinitCall("count", IntV(1), 0)
    \/ \E auto_stack_trace \in BOOLEAN :
          WholeInit(<<ReportConfiguration(auto_stack_trace)>>, TRUE)

SpecReentrant == Init /\ [][NextReentrant]_vars

(***************************************************************************)
(* The label and the argument names of a log group (report.py 264-316,     *)
(* 353-390).  The call node is what _find_log_call_ast finds in the source *)
(* file for the call site: None when the file cannot be read or parsed or  *)
(* holds no report.log(...) call on the line, else the node with the       *)
(* argument expressions, each of a kind (ast.Constant, ast.Name,           *)
(* ast.Starred) and with its source text.                                  *)
(***************************************************************************)
ArgNode(kind, text) == [kind |-> kind, text |-> text]
CallNode(args) == [t |-> "Call", args |-> args]

\* ast.unparse(node): the source text of the expression (100-103).
ast_node_to_expression(node) == StrV(node.text)

extract_arg_names(call_node) ==
    IF IsNone(call_node) THEN <<>>
    ELSE [i \in 1..Len(call_node.args) |-> ast_node_to_expression(call_node.args[i])]

infer_name_from_first_arg(call_node, first_arg_value) ==
    IF IsNone(call_node) THEN NoneV
    ELSE IF Len(call_node.args) = 0 THEN NoneV
    ELSE IF call_node.args[1].kind = "Constant" /\ first_arg_value.t = "str"
         THEN first_arg_value
         ELSE NoneV

\* Faulty variant: the label is inferred also when a name is given.
log_infers_always(args, name) == Len(args) > 0

\* The inference is tried only without an explicit name (357).
log_infers(args, name) == IsNone(name) /\ Len(args) > 0

\* Lines 353-390: the label, the values to store and their names, padded
\* with None or cut to the number of the values.
log_names(args, name, call_node) ==
    LET inferred_name == IF log_infers(args, name)
                         THEN infer_name_from_first_arg(call_node, args[1])
                         ELSE NoneV
        all_arg_names == extract_arg_names(call_node)
        args_to_store == IF IsNone(inferred_name) THEN args ELSE Tail(args)
        arg_names_to_store ==
            IF IsNone(inferred_name) THEN all_arg_names
            ELSE IF Len(all_arg_names) > 1 THEN Tail(all_arg_names) ELSE <<>>
    IN  [ name |-> IF IsNone(inferred_name) THEN name ELSE inferred_name,
          args_to_store |-> args_to_store,
          arg_names |-> [i \in 1..Len(args_to_store) |->
                            IF i <= Len(arg_names_to_store)
                            THEN arg_names_to_store[i] ELSE NoneV] ]

MaxNameOps == 2
\* The arguments, the names and the call nodes of the log() calls.
NameArgs == {<<>>, <<StrV("label")>>, <<StrV("label"), IntV(1)>>, <<IntV(1), IntV(2)>>}
NameNames == {NoneV, StrV("given")}
NameNodes ==
    { NoneV, CallNode(<<>>), CallNode(<<ArgNode("Constant", "'label'")>>),
      CallNode(<<ArgNode("Constant", "'label'"), ArgNode("Name", "x")>>),
      CallNode(<<ArgNode("Name", "s"), ArgNode("Name", "x")>>),
      CallNode(<<ArgNode("Constant", "1"), ArgNode("Name", "x"), ArgNode("Name", "y")>>),
      CallNode(<<ArgNode("Starred", "*xs")>>) }

\* log(*args, name=name): the group is stored with the values kept; the
\* call's result record tells the label and the argument names of the group.
NamedLog(args, name, call_node) ==
    /\ entered < MaxNameOps
    /\ LET n == log_names(args, name, call_node)
           o == run_call(ensure_initialized(report),
                         NewFrame("log", TheSite, TupleV(n.args_to_store), 0))
           log_group == o.r.logs[TheSite][Len(o.r.logs[TheSite])]
       IN  /\ report' = o.r
           /\ result' = Returned(Main, "log",
                                 [ t |-> "named", args |-> args, name |-> name,
                                   call_node |-> call_node,
                                   group |-> [ name |-> n.name,
                                               arg_names |-> n.arg_names,
                                               values |-> log_group.values ] ])
    /\ entered' = entered + 1
    /\ UNCHANGED <<lock, pc, frame, clock, done, cleared, outside>>

NextNames ==
    \E args \in NameArgs, name \in NameNames, call_node \in NameNodes :
        NamedLog(args, name, call_node)

SpecNames == Init /\ [][NextNames]_vars

(***************************************************************************)
(* Properties.                                                             *)
(***************************************************************************)
SeqRange(s) == {s[i] : i \in DOMAIN s}

RECURSIVE SumOver(_, _)
SumOver(f, S) ==
    IF S = {} THEN 0
    ELSE LET x == CHOOSE y \in S : TRUE
         IN  f[x] + SumOver(f, S \ {x})

\* No thread is between the first and the last statement of a handler.
Quiescent == \A t \in Threads : pc[t] \notin {"inside", "stored"}

\* The indices assigned to the calls completed since the last clear.
RecordedIndices == {done[i].index : i \in 1..Len(done)}

\* The indices of the groups in the store, and the number of those groups.
StoredIndices(r) ==
    UNION {{r.logs[s][i].log_index : i \in 1..Len(r.logs[s])} \cup
           {r.dashboard_logs[s][i].log_index : i \in 1..Len(r.dashboard_logs[s])}
           : s \in Sites}
StoredGroups(r) ==
    SumOver([s \in Sites |-> Len(r.logs[s]) + Len(r.dashboard_logs[s])], Sites)

\* C1: the N observation calls (any mix of kinds, from concurrent threads)
\* completed on a fresh or freshly cleared store were assigned exactly the
\* indices 0..N-1: no two calls share an index, none is skipped, and the store
\* holds one group per index.
C1_IndicesExactlyZeroToN ==
    /\ \A i, j \in 1..Len(done) : i # j => done[i].index # done[j].index
    /\ Quiescent =>
          /\ RecordedIndices = 0..(Len(done) - 1)
          /\ StoredIndices(report) = 0..(Len(done) - 1)
          /\ StoredGroups(report) = Len(done)
          /\ report.log_index = Len(done)

\* Two calls of different kinds, made by different threads, have completed
\* and no call is under way.
C1_Witness ==
    /\ Quiescent
    /\ Len(done) = 2
    /\ done[1].thread # done[2].thread
    /\ done[1].op # done[2].op
    /\ RecordedIndices = {0, 1}

\* C2: if the critical section of call A ended before that of call B began
\* (no clear between them), the index recorded for A is strictly less than the
\* index recorded for B.
C2_IndexFollowsLockOrder ==
    \A i, j \in 1..Len(done) :
        done[i].exit < done[j].enter => done[i].index < done[j].index

C2_Witness ==
    /\ Len(done) = 2
    /\ done[1].thread # done[2].thread
    /\ done[1].exit < done[2].enter
    /\ done[1].index = 0
    /\ done[2].index = 1

(***************************************************************************)
(* The snapshot to_json() returns.                                         *)
(***************************************************************************)
IsSnapshot(x) == x.op = "export" /\ ~IsRaise(x.out)

ExportedLogIndices(e) ==
    UNION {{e.call_sites[s][i].log_index : i \in 1..Len(e.call_sites[s])}
           : s \in Sites}
ExportedDashboardIndices(e) ==
    UNION {{e.dashboard_call_sites[s][i].log_index :
                i \in 1..Len(e.dashboard_call_sites[s])} : s \in Sites}
ExportedIndices(e) == ExportedLogIndices(e) \cup ExportedDashboardIndices(e)
ExportedGroups(e) ==
    SumOver([s \in Sites |->
                Len(e.call_sites[s]) + Len(e.dashboard_call_sites[s])], Sites)

\* The dashboard observation g of site s is in the aggregate view of its kind.
InAggregate(e, s, g) ==
    CASE g.dashboard_type = "count" ->
            /\ s \in DOMAIN e.counts
            /\ \E i \in 1..Len(e.counts[s]) :
                    g.log_index \in SeqRange(e.counts[s][i].log_indices)
      [] g.dashboard_type = "hist" ->
            /\ s \in DOMAIN e.histograms
            /\ \E i \in 1..Len(e.histograms[s]) :
                    e.histograms[s][i].log_index = g.log_index
      [] g.dashboard_type = "timeline" ->
            \E i \in 1..Len(e.timeline) : e.timeline[i].log_index = g.log_index
      [] g.dashboard_type = "happened" ->
            /\ s \in DOMAIN e.happened
            /\ e.happened[s].count =
                  Cardinality({i \in 1..Len(e.dashboard_call_sites[s]) :
                      e.dashboard_call_sites[s][i].dashboard_type = "happened"})

\* The stack trace ids of the exported groups.
ExportedTraceIds(e) ==
    UNION {{e.call_sites[s][i].stack_trace_id : i \in 1..Len(e.call_sites[s])}
           \cup {e.dashboard_call_sites[s][i].stack_trace_id :
                    i \in 1..Len(e.dashboard_call_sites[s])} : s \in Sites}
      \ {None}

SnapshotWhole(e) ==
    /\ ExportedIndices(e) = 0..(ExportedGroups(e) - 1)
    /\ \A s \in Sites : \A i \in 1..Len(e.dashboard_call_sites[s]) :
            InAggregate(e, s, e.dashboard_call_sites[s][i])
    /\ ExportedTraceIds(e) = DOMAIN e.stack_traces

\* C3: a snapshot returned by to_json() while observation calls run holds
\* the observations of indices 0..k-1 for some k, each in its call-site
\* entry, in the aggregate view of its kind and, if a trace was captured, in
\* the stack trace table; no trace is there without its observation.
C3_SnapshotIsWhole == IsSnapshot(result) => SnapshotWhole(result.out)

\* C4: no observation call raises to its caller: every completed call has
\* returned normally.
C4_ObservationNeverRaises == \A i \in 1..Len(done) : ~done[i].raised

\* The data init(clear=True) discards, and the counter it resets.
ObservationState(r) ==
    [ logs |-> r.logs, log_index |-> r.log_index,
      stack_traces |-> r.stack_traces, counts |-> r.counts,
      counts_metadata |-> r.counts_metadata, histograms |-> r.histograms,
      timeline |-> r.timeline, happened |-> r.happened,
      dashboard_logs |-> r.dashboard_logs ]

IsInit(x, clear) == x.op = "init" /\ x.out.v.clear = clear

\* C5: when init(clear=True) returns, the logs, the four aggregate views, the
\* dashboard logs and the stack trace table are empty and the counter is 0;
\* the first observation to take the lock afterwards is assigned index 0, and
\* an export holds the observations made since the clear and no other.
C5_ClearDiscardsAndResets ==
    /\ IsInit(result, TRUE) => ObservationState(report) = ObservationState(NewReport)
    /\ \A i \in 1..Len(done) : done[i].enter = 1 => done[i].index = 0
    /\ IsSnapshot(result) => ExportedIndices(result.out) = RecordedIndices

\* Data was discarded by a clear, and the observation made next was exported
\* alone, with index 0.
C5_Witness ==
    /\ cleared
    /\ IsSnapshot(result)
    /\ Len(done) = 1
    /\ done[1].index = 0
    /\ ExportedIndices(result.out) = {0}

CallsOf(op, s) == {i \in 1..Len(done) : done[i].op = op /\ done[i].site = s}

\* The position in done of the call that was assigned the index.
CallAt(index) == CHOOSE i \in 1..Len(done) : done[i].index = index

\* The message of the earliest call of I that gave one, else None.
FirstMessage(I) ==
    LET given == {i \in I : done[i].arg # NoneV}
    IN  IF given = {} THEN NoneV
        ELSE done[CHOOSE i \in given : \A j \in given : i <= j].arg

\* C7: at every call site the occurrence counter holds the number of
\* happened() calls made there and the message of the earliest of them that
\* gave a message (None if none did), so a message once set is never changed;
\* the export shows that count and that message, and no entry for a site
\* without calls.
C7_HappenedCountAndFirstMessage ==
    \A s \in Sites :
        LET calls == CallsOf("happened", s)
        IN  /\ report.happened[s].count = Cardinality(calls)
            /\ report.happened[s].message = FirstMessage(calls)
            /\ IsSnapshot(result) =>
                  IF calls = {} THEN s \notin DOMAIN result.out.happened
                  ELSE /\ s \in DOMAIN result.out.happened
                       /\ result.out.happened[s].count = Cardinality(calls)
                       /\ result.out.happened[s].message = FirstMessage(calls)

\* happened(), happened("first"), happened("second") at one site, exported.
C7_Witness ==
    /\ IsSnapshot(result)
    /\ Len(done) = 3
    /\ \A i \in 1..3 : done[i].op = "happened" /\ done[i].site = TheSite
    /\ done[1].arg = NoneV
    /\ done[2].arg = StrV("first")
    /\ done[3].arg = StrV("second")
    /\ result.out.happened[TheSite].count = 3
    /\ result.out.happened[TheSite].message = StrV("first")

\* C8: the exported timeline holds the events of the timeline() calls, each
\* once, in non-decreasing order of timestamp, and events of equal timestamp
\* in the order of their insertion, whatever came between them.
C8_TimelineSortedStable ==
    IsSnapshot(result) =>
        LET tl == result.out.timeline
            calls == CallsOf("timeline", TheSite)
        IN  /\ Len(tl) = Cardinality(calls)
            /\ {tl[i].log_index : i \in 1..Len(tl)} = {done[i].index : i \in calls}
            /\ \A i \in 1..Len(tl) : \E c \in calls :
                    done[c].index = tl[i].log_index /\ done[c].now = tl[i].timestamp
            /\ \A i, j \in 1..Len(tl) :
                    i < j => \/ tl[i].timestamp < tl[j].timestamp
                             \/ /\ tl[i].timestamp = tl[j].timestamp
                                /\ CallAt(tl[i].log_index) < CallAt(tl[j].log_index)

\* Events stamped 2, 1, 1 in that order of insertion are exported 1, 1, 2
\* with the two of timestamp 1 in insertion order.
C8_Witness ==
    /\ IsSnapshot(result)
    /\ Len(done) = 3
    /\ \A i \in 1..3 : done[i].op = "timeline"
    /\ done[1].now = 2 /\ done[2].now = 1 /\ done[3].now = 1
    /\ [i \in 1..3 |-> result.out.timeline[i].log_index] = <<1, 2, 0>>

(***************************************************************************)
(* The count view against the calls made (one caller).                     *)
(***************************************************************************)
\* The count() calls made at site s that returned.
Counted(s) == {i \in CallsOf("count", s) : ~done[i].raised}

\* The canonical JSON string of a value: the dump, keys sorted, of its
\* JSON-safe form.
CanonicalJson(value) == json_dumps(to_json_serializable(value))

\* The calls i and j lie in one bucket of the site's stored counts.
SameBucket(s, i, j) ==
    \E b \in 1..Len(report.counts[s]) :
        {done[i].index, done[j].index} \subseteq
            {report.counts[s][b].data[k][2] : k \in 1..Len(report.counts[s][b].data)}

\* The entries of the exported counts of site s, none if it has no entry.
ExportedCounts(e, s) == IF s \in DOMAIN e.counts THEN e.counts[s] ELSE <<>>

\* C9: of the count() calls made at one call site with unhashable values,
\* two lie in the same bucket exactly if their canonical JSON strings are
\* equal; and where only such values were counted, the export has one entry
\* per canonical string, whose count is the number of calls that gave it and
\* whose log indices are theirs.
C9_UnhashableBucketsByCanonicalJson ==
    \A s \in Sites :
        LET calls == {i \in Counted(s) : ~Hashable(done[i].arg)}
        IN  /\ \A i, j \in calls :
                    SameBucket(s, i, j) <=>
                        CanonicalJson(done[i].arg) = CanonicalJson(done[j].arg)
            /\ (IsSnapshot(result) /\ calls = Counted(s)) =>
                  LET entries == ExportedCounts(result.out, s)
                  IN  /\ {entries[k].key : k \in 1..Len(entries)} =
                            {CanonicalJson(done[i].arg) : i \in calls}
                      /\ \A k, l \in 1..Len(entries) :
                            entries[k].key = entries[l].key => k = l
                      /\ \A k \in 1..Len(entries) :
                            LET same == {i \in calls :
                                    CanonicalJson(done[i].arg) = entries[k].key}
                            IN  /\ entries[k].count = Cardinality(same)
                                /\ SeqRange(entries[k].log_indices) =
                                      {done[i].index : i \in same}

\* {"a": 1, "b": 2}, [1, 2] and {"b": 2, "a": 1} counted at one site are
\* exported under two keys with the counts 2 and 1.
C9_Witness ==
    /\ IsSnapshot(result)
    /\ Len(done) = 3
    /\ \A i \in 1..3 : done[i].op = "count" /\ done[i].site = TheSite
    /\ done[1].arg = DictAB /\ done[2].arg = List12 /\ done[3].arg = DictBA
    /\ LET entries == result.out.counts[TheSite]
       IN  /\ Len(entries) = 2
           /\ entries[1].key = "{\"a\": 1, \"b\": 2}" /\ entries[1].count = 2
           /\ entries[2].key = "[1, 2]" /\ entries[2].count = 1

\* C10: any two values counted at one call site whose canonical JSON-safe
\* forms are equal, a tuple and a list of the same elements among them, are
\* counted under one key: one exported entry holds the log indices of both
\* calls.
C10_OneKeyPerCanonicalForm ==
    IsSnapshot(result) =>
        \A s \in Sites : \A i, j \in Counted(s) :
            CanonicalJson(done[i].arg) = CanonicalJson(done[j].arg) =>
                \E k \in 1..Len(ExportedCounts(result.out, s)) :
                    {done[i].index, done[j].index} \subseteq
                        SeqRange(ExportedCounts(result.out, s)[k].log_indices)


\* C11: to_json() is read-only and repeatable.  A to_json() that directly
\* follows another to_json() (no observation call and no init() between
\* them) returns the same structure except for generated_at, and no
\* to_json(), raising or not, changes any field of the Report.
SameButGeneratedAt(a, b) ==
    [a EXCEPT !.generated_at = 0] = [b EXCEPT !.generated_at = 0]
IndexIncreasing(groups) ==
    \A i, j \in 1..Len(groups) : i < j => groups[i].log_index < groups[j].log_index
PlaceOf(groups, index) ==
    CHOOSE k \in 1..Len(groups) : groups[k].log_index = index
GroupsOf(r, d) == IF d.op = "log" THEN r.logs[d.site] ELSE r.dashboard_logs[d.site]
IndicesOf(groups) == [i \in 1..Len(groups) |-> groups[i].log_index]
C12_SiteGroupsInCallOrder ==
    /\ \A s \in Sites :
          /\ IndexIncreasing(report.logs[s])
          /\ IndexIncreasing(report.dashboard_logs[s])
          /\ IsSnapshot(result) =>
                /\ IndicesOf(result.out.call_sites[s]) = IndicesOf(report.logs[s])
                /\ IndicesOf(result.out.dashboard_call_sites[s])
                      = IndicesOf(report.dashboard_logs[s])
    /\ \A i, j \in 1..Len(done) :
          (/\ done[i].site = done[j].site
           /\ (done[i].op = "log") = (done[j].op = "log")
           /\ done[i].enter < done[j].enter)
          => PlaceOf(GroupsOf(report, done[i]), done[i].index)
               < PlaceOf(GroupsOf(report, done[j]), done[j].index)
\* Two threads have logged at one site, a call of the other site ran between
\* them, and the export shows the two groups of the first site.
C12_Witness ==
    /\ Len(done) = 3
    /\ IsSnapshot(result)
    /\ IndicesOf(result.out.call_sites[TheSite]) = <<0, 2>>
    /\ \E i, j, k \in 1..3 :
          /\ done[i].op = "log" /\ done[i].site = TheSite /\ done[i].index = 0
          /\ done[j].site # TheSite /\ done[j].index = 1
          /\ done[k].op = "log" /\ done[k].site = TheSite /\ done[k].index = 2
          /\ done[i].thread # done[k].thread

\* The entry of _stack_traces at an index stays as it was stored until
\* init(clear=True) empties the store.
StoredSnapshotsKept ==
    [][(done # <<>> /\ done' = <<>>) \/
       \A i \in DOMAIN report.stack_traces :
           /\ i \in DOMAIN report'.stack_traces
           /\ report'.stack_traces[i] = report.stack_traces[i]]_vars

\* C13: a snapshot stored under log index i is kept there unchanged until
\* init(clear=True), and is stored under no other index: the StackTrace
\* objects under two different indices are two different objects, also when
\* one CallStack object is given as a value to several log() calls.
C13_SnapshotUnderOneIndex ==
    \A i, j \in DOMAIN report.stack_traces :
        i # j => report.stack_traces[i].object # report.stack_traces[j].object

\* C14: on a CallStack of D frames, .caller taken D+1 times and then
\* .variable("x") gives an Err whose context holds the requested index D+1,
\* whatever attribute accesses were made on the queries before; .caller
\* only adds one to the offset: it gives a FrameQuery, also beyond the
\* last frame, and the offset of the query is the number of .caller taken.
VariableAskedOf(q) ==
    /\ nav.op = "call"
    /\ nav.on.t = "method"
    /\ nav.on.name = "variable"
    /\ nav.on.self = q
    /\ nav.args = <<"x">>
C14_CallerChainError ==
    LET D == Len(callstack.frames)
    IN  /\ nav.query.t = "FrameQuery" => nav.query.frame_offset = nav.callers
        /\ nav.op = "caller" => nav.obj.t = "FrameQuery" /\ nav.obj = nav.query
        /\ (VariableAskedOf(nav.query) /\ nav.callers = D + 1) =>
              /\ nav.obj.t = "AutopsyResult"
              /\ is_err(nav.obj)
              /\ nav.obj.error.message = "Frame index out of range"
              /\ nav.obj.error.context.frame_index = D + 1
\* On a CallStack of MaxFrames frames the caller has taken .caller
\* MaxFrames + 1 times, has used queries on the way in expressions, and
\* .variable("x") has returned an Err.
C14_Witness ==
    /\ Len(callstack.frames) = MaxFrames
    /\ nav.callers = MaxFrames + 1
    /\ nav.probed
    /\ VariableAskedOf(nav.query)
    /\ nav.obj.t = "AutopsyResult"
    /\ is_err(nav.obj)

\* C15: frame(i) on a CallStack of n frames never raises; it returns Ok,
\* with frame i, exactly when 0 <= i < n, and for every other i, negative
\* ones included, an Err whose context holds the requested index i, the
\* count n and valid_range (0, n-1), or (0, -1) when n = 0.
C15_FrameOkIffInRange ==
    nav.op = "frame" =>
        LET i == nav.index
            n == Len(callstack.frames)
        IN  /\ nav.obj.t = "AutopsyResult"
            /\ is_ok(nav.obj) <=> (0 <= i /\ i < n)
            /\ is_ok(nav.obj) => nav.obj.value = FrameV(callstack.frames[i + 1])
            /\ is_err(nav.obj) =>
                  nav.obj.error.context =
                      [ frame_index |-> i, available_frames |-> n,
                        valid_range |-> IF n = 0 THEN <<0, -1>> ELSE <<0, n - 1>> ]
\* frame(-1) on a CallStack that has frames has returned an Err.
C15_Witness ==
    /\ nav.op = "frame"
    /\ nav.index = -1
    /\ Len(callstack.frames) = MaxFrames
    /\ nav.obj.t = "AutopsyResult"
    /\ is_err(nav.obj)
\* frame(0) on a CallStack without frames has returned an Err.
C15_WitnessEmpty ==
    /\ nav.op = "frame"
    /\ nav.index = 0
    /\ Len(callstack.frames) = 0
    /\ nav.obj.t = "AutopsyResult"
    /\ is_err(nav.obj)

\* The last operation was applied to a value whose resolution had failed and
\* that forwards it: an attribute access or a call on a proxy of an Err, an
\* attribute access on an Err result or on a query out of range (other than
\* the inspection methods and .caller), or variable() of such a query.
Failed(q) == is_err(FrameQuery_resolve(callstack, q))
OnFailed ==
    \/ /\ nav.on.t = "_AttributeProxy"
       /\ is_err(nav.on.result)
    \/ /\ nav.on.t = "AutopsyResult"
       /\ is_err(nav.on)
       /\ nav.op = "getattr"
       /\ nav.name \notin {"is_ok", "is_err", "error"}
    \/ /\ nav.on.t = "FrameQuery"
       /\ Failed(nav.on)
       /\ nav.op = "getattr"
       /\ nav.name \notin {"caller", "is_ok", "is_err", "error", "variable"}
    \/ /\ nav.on.t = "method"
       /\ nav.on.name = "variable"
       /\ nav.on.self.t = "FrameQuery"
       /\ Failed(nav.on.self)
       /\ nav.op = "call"
       /\ Len(nav.args) = 1

\* C16: on a query or result whose resolution failed, attribute accesses and
\* method calls raise nothing and give a value that carries the error of
\* that resolution, with its message and context; only the access of .value
\* raises, with the message of that error.
C16_FailsOnceAtValue ==
    (OnFailed /\ ~IsNone(nav.origin)) =>
        IF nav.op = "getattr" /\ nav.name = "value"
        THEN /\ IsRaise(nav.obj)
             /\ nav.obj.kind = "ValueError"
             /\ nav.obj.v = "Cannot access value of error result: " \o nav.origin.message
        ELSE /\ ~IsRaise(nav.obj)
             /\ ErrorOf(nav.obj).t = "ErrorInfo"
             /\ ErrorOf(nav.obj).message = nav.origin.message
             /\ ErrorOf(nav.obj).context = nav.origin.context

\* C17: an AutopsyResult is exactly one of Ok and Err.  Constructing one
\* with both a value and an error, or with neither, raises ValueError at
\* once; every result that exists has either a value or an error; on every
\* result is_ok() and is_err() return booleans that are each other's
\* negation; .value returns the value of an Ok and raises ValueError with
\* the error's message on an Err.
C17_ResultOkOrErr ==
    /\ nav.op = "construct" =>
          IF IsNone(nav.args[1]) = IsNone(nav.args[2])
          THEN IsRaise(nav.obj) /\ nav.obj.kind = "ValueError"
          ELSE /\ nav.obj.t = "AutopsyResult"
               /\ nav.obj.value.t = nav.args[1].t
               /\ nav.obj.error.t = nav.args[2].t
    /\ \A r \in {nav.obj, nav.on} :
          r.t = "AutopsyResult" =>
             /\ IsNone(r.value) # IsNone(r.error)
             /\ call_object(callstack, getattr(callstack, r, "is_ok"), <<>>)
                   = BoolV(IsNone(r.error))
             /\ call_object(callstack, getattr(callstack, r, "is_err"), <<>>)
                   = BoolV(~IsNone(r.error))
    /\ (nav.on.t = "AutopsyResult" /\ nav.op = "getattr" /\ nav.name = "value") =>
          IF IsNone(nav.on.error)
          THEN nav.obj = nav.on.value
          ELSE /\ IsRaise(nav.obj)
               /\ nav.obj.kind = "ValueError"
               /\ nav.obj.v = "Cannot access value of error result: "
                                 \o nav.on.error.message
\* .value of an Err that the caller constructed has raised.
C17_Witness ==
    /\ nav.op = "getattr"
    /\ nav.name = "value"
    /\ nav.on.t = "AutopsyResult"
    /\ is_err(nav.on)
    /\ nav.on.error.message = "failed"
    /\ IsRaise(nav.obj)

\* A value holds no non-finite float, at top level or inside lists and dicts:
\* json.dumps(value, allow_nan=False) takes it.
RECURSIVE AllFinite(_)
AllFinite(x) ==
    CASE x.t = "float" -> x.v \notin NonFinite
      [] x.t \in {"list", "tuple"} -> \A i \in 1..Len(x.v) : AllFinite(x.v[i])
      [] x.t = "dict" -> \A i \in 1..Len(x.v) : AllFinite(x.v[i][2])
      [] OTHER -> TRUE
\* The value with "Infinity", "-Infinity" or "NaN" in the place of every
\* non-finite float, finite numbers unchanged.
Sanitized(x) == json_utils_to_json_serializable(x)

\* C18: a snapshot holds no non-finite number.  The numbers of a histogram,
\* the logged values and the counted values appear with every +inf, -inf
\* and NaN replaced by "Infinity", "-Infinity" and "NaN", the finite numbers
\* unchanged, so that the snapshot can be encoded with allow_nan=False.
C18_ExportHasNoNonFinite ==
    IsSnapshot(result) =>
        \A s \in Sites :
            /\ s \in DOMAIN result.out.histograms =>
                  \A i \in 1..Len(result.out.histograms[s]) :
                      /\ AllFinite(result.out.histograms[s][i].value)
                      /\ result.out.histograms[s][i].value
                            = Sanitized(report.histograms[s][i].num)
            /\ \A i \in 1..Len(result.out.call_sites[s]) :
                  \A k \in 1..Len(result.out.call_sites[s][i].values) :
                      AllFinite(result.out.call_sites[s][i].values[k])
            /\ \A i \in 1..Len(result.out.dashboard_call_sites[s]) :
                  AllFinite(result.out.dashboard_call_sites[s][i].value)

\* The text occurs in a converted value, at any depth.
RECURSIVE Holds(_, _)
Holds(x, text) ==
    CASE x.t = "str" -> x.v = text
      [] x.t = "list" -> \E i \in 1..Len(x.v) : Holds(x.v[i], text)
      [] x.t = "dict" -> \E i \in 1..Len(x.v) : Holds(x.v[i][2], text)
      [] OTHER -> FALSE
\* The number of containers around the innermost value of a value without
\* a cycle; the number of containers around the first container that holds
\* itself, of a value with one.
RECURSIVE Nesting(_)
Nesting(x) ==
    IF Cyclic(x) \/ ~(IsListLike(x) \/ IsDictLike(x)) THEN 0
    ELSE IF IsListLike(x) /\ x.v # <<>> THEN 1 + Nesting(x.v[1])
    ELSE IF IsDictLike(x) /\ x.v # <<>> THEN 1 + Nesting(x.v[1][2])
    ELSE 1
RECURSIVE HasCycle(_)
HasCycle(x) ==
    CASE Cyclic(x) -> TRUE
      [] x.t \in {"list", "tuple"} -> \E i \in 1..Len(x.v) : HasCycle(x.v[i])
      [] x.t = "dict" -> \E i \in 1..Len(x.v) : HasCycle(x.v[i][2])
      [] OTHER -> FALSE

\* C19: converting a value ends with a value, never with an exception, also
\* when a container of it holds itself directly or through other containers:
\* the container met again is written as "<circular_reference>", and what is
\* nested in more containers than the bound, 10, as "<max_depth_reached>".
C19_CanonicalizingTerminates ==
    result.op \in Codecs =>
        LET value == done[1].arg
            out == result.out
        IN  /\ ~IsRaise(out)
            /\ (HasCycle(value) /\ Nesting(value) + 2 < DefaultMaxDepth) =>
                   Holds(out, "<circular_reference>")
            /\ (~HasCycle(value) /\ Nesting(value) > DefaultMaxDepth) =>
                   Holds(out, "<max_depth_reached>")
\* The same, of CallStack._serialize_to_json alone.
SerializeToJsonTerminates ==
    result.op = "_serialize_to_json" => C19_CanonicalizingTerminates

(***************************************************************************)
(* C20: in live mode an observation call always completes without waiting  *)
(* for any subscriber.  Whatever the event loop and the subscribers do or  *)
(* fail to do (the loop absent, not yet running or stopped, a subscriber   *)
(* that never takes what it is sent), a call that has started returns; and *)
(* what it returns and what the store holds afterwards are what they are   *)
(* without live mode, whether the update was queued, dropped, or failed to *)
(* be built.                                                               *)
(***************************************************************************)
LiveAsWithout ==
    result.op \in {"log", "count", "hist", "happened"} =>
        /\ report = live.without.r
        /\ result.out = live.without.out

C20_LiveCallNeverWaits ==
    /\ []LiveAsWithout
    /\ (pc[Main] # "idle") ~> (pc[Main] = "idle")

\* A call has returned in live mode while the subscriber has yet to take an
\* earlier update and the update of this call is still scheduled.
C20_Witness ==
    /\ live.enabled
    /\ result.op = "count"
    /\ ~IsRaise(result.out)
    /\ live.sending.to # {}
    /\ live.pending # <<>>

\* A call has returned in live mode although its update was dropped for want
\* of a running loop.
C20_WitnessDropped ==
    /\ live.enabled
    /\ result.op = "log"
    /\ live.last = "dropped"
    /\ live.loop # "running"

(***************************************************************************)
(* C21: a subscriber that received its snapshot and merged every update    *)
(* sent to it holds, once no update is scheduled or being sent, exactly    *)
(* the value groups and stack traces of an export taken at that moment:    *)
(* each observation once, none missing and none duplicated.                *)
(***************************************************************************)
SinkQuiet == live.pending = <<>> /\ live.sending = NoSending

\* The value groups of the two sequences are the same, each as many times.
SameGroups(held, exported) ==
    /\ Len(held) = Len(exported)
    /\ \A g \in SeqRange(held) \cup SeqRange(exported) :
          Cardinality({i \in 1..Len(held) : held[i] = g})
              = Cardinality({i \in 1..Len(exported) : exported[i] = g})

HoldsExport(client, e) ==
    /\ \A s \in Sites : /\ SameGroups(client.logs[s], e.call_sites[s])
                        /\ SameGroups(client.dash[s], e.dashboard_call_sites[s])
    /\ client.traces = snapshot_traces(e)

C21_SubscriberHoldsExport ==
    (SinkQuiet /\ ~ExportRaises(report)) =>
        \A c \in live.connections :
            (~live.clients[c].failed /\ ~live.clients[c].aborted) =>
                HoldsExport(live.clients[c], to_json(report, 0))

(***************************************************************************)
(* C25: every observation recorded in live mode while the event loop runs  *)
(* reaches every subscriber that is connected and whose sends succeed, in  *)
(* its snapshot or as an update, also when other subscribers connect,      *)
(* disconnect or fail during a broadcast.  Once no update is scheduled or  *)
(* being sent, such a subscriber holds a value group for every stored      *)
(* observation.                                                            *)
(***************************************************************************)
HeldIndices(client) ==
    UNION {{client.logs[s][i].log_index : i \in 1..Len(client.logs[s])} \cup
           {client.dash[s][i].log_index : i \in 1..Len(client.dash[s])} : s \in Sites}

C25_EveryObservationReachesSubscribers ==
    SinkQuiet =>
        \A c \in live.connections :
            ~live.clients[c].failed =>
                StoredIndices(report) \subseteq HeldIndices(live.clients[c])
\* C22: the exit hook writes a file only when auto-export is enabled, the
\* store is initialized, not marked written, not in live mode and holds
\* data; and once generate_html or generate_json has written a file and no
\* clear has followed, the exit hook writes nothing.
ExitStep == ~process.exited /\ process'.exited
C22_ExitWritesOnlyUnwritten ==
    [][ExitStep =>
          /\ (process'.files # process.files) =>
                 /\ process.atexit_enabled
                 /\ report.initialized
                 /\ ~report.written
                 /\ ~report.config.live_mode
                 /\ HasData(report)
          /\ process.file_current => process'.files = process.files]_vars

\* The hook has run with auto-export enabled, outside live mode, on a store
\* that holds data and was written by generate_html or generate_json: the
\* files are those the program wrote itself.
C22_Witness ==
    /\ process.exited
    /\ process.file_current
    /\ process.atexit_enabled
    /\ ~report.config.live_mode
    /\ exit_data(report)
    /\ process.files # <<>>
    /\ \A i \in DOMAIN process.files : process.files[i].by # "atexit"

\* The hook has written the report of a store never written before.
C22_WitnessWritten ==
    /\ process.exited
    /\ process.files # <<>>
    /\ process.files[Len(process.files)].by = "atexit"

\* C29: whenever the store is marked written, the file written last holds
\* every stored observation: its export is the export of the store.
LastFile == process.files[Len(process.files)]
C29_WrittenCoversEveryObservation ==
    report.written =>
        /\ process.files # <<>>
        /\ LastFile.data = to_json(report, 0)

\* C30: an observation made while the configuration has live_mode false
\* schedules no update on the live server, and neither does one made while
\* no server loop was ever started.
ObservationStep == entered' = entered + 1
C30_PushFollowsConfiguration ==
    [][ObservationStep =>
          /\ ~report.config.live_mode => live'.pending = live.pending
          /\ live.loop = "none" => live'.pending = live.pending]_vars

\* C24: when init() with default arguments returns on a store that holds
\* count, hist, timeline and happened data, the next export has no dashboard
\* section, or one whose counts, histograms, timeline and happened lists are
\* all empty.
HoldsDashboardData(r) ==
    /\ r.counts_metadata # {}
    /\ \E s \in Sites : r.histograms[s] # <<>>
    /\ r.timeline # <<>>
    /\ \E s \in Sites : r.happened[s].count > 0
DashboardEmpty(e) ==
    \/ ~e.has_dashboard
    \/ /\ DOMAIN e.counts = {}
       /\ DOMAIN e.histograms = {}
       /\ e.timeline = <<>>
       /\ DOMAIN e.happened = {}
C24_DefaultInitClearsDashboard ==
    [][(IsInit(result', FALSE) /\ HoldsDashboardData(report))
          => DashboardEmpty(to_json(report', 0))]_vars

\* C28: in every export, each happened entry has one log index per call at
\* its site: the length of log_indices is its count, with automatic stack
\* traces on or off.
C28_HappenedIndexPerCall ==
    (result.op = "export" /\ ~IsRaise(result.out)) =>
        \A s \in DOMAIN result.out.happened :
            Len(result.out.happened[s].log_indices) = result.out.happened[s].count

\* C26: every stored log group and dashboard entry that carries a
\* stack_trace_id has it equal to its own log_index, and the snapshot stored
\* under that index was captured by the call that stored the record (it
\* starts at the record's call site), also when pickling a logged value
\* re-enters log().
OwnsItsTrace(g, s) ==
    g.stack_trace_id # NoTraceId =>
        /\ g.stack_trace_id = g.log_index
        /\ g.log_index \in DOMAIN report.stack_traces
        /\ report.stack_traces[g.log_index].frames[1].site = s
C26_TraceIdIsOwnIndex ==
    \A s \in Sites :
        /\ \A i \in 1..Len(report.logs[s]) : OwnsItsTrace(report.logs[s][i], s)
        /\ \A i \in 1..Len(report.dashboard_logs[s]) :
               OwnsItsTrace(report.dashboard_logs[s][i], s)

\* C27: in every export, for every call site, the counts of the exported
\* keys add up to the number of count() calls that returned at that site
\* since the last clear.
ExportedTotal(e, s) ==
    LET entries == ExportedCounts(e, s)
    IN  SumOver([k \in 1..Len(entries) |-> entries[k].count], 1..Len(entries))
C27_ExportedCountsSumToCalls ==
    IsSnapshot(result) =>
        \A s \in Sites : ExportedTotal(result.out, s) = Cardinality(Counted(s))

\* C23: the first argument of log() becomes the label of the group and is
\* left out of the stored values exactly if no name was given and the first
\* argument is a string literal in the source; with a name given the label
\* is that name and every argument is stored; and the group has as many
\* argument names as stored values.
IsNamed(x) == x.op = "log" /\ x.out.t = "named"
Pickled(values) == [i \in 1..Len(values) |-> pickle_dumps(values[i])]
\* The first argument is a string literal of the call found in the source.
FirstIsLiteral(args, call_node) ==
    /\ Len(args) > 0
    /\ args[1].t = "str"
    /\ call_node.t = "Call"
    /\ Len(call_node.args) > 0
    /\ call_node.args[1].kind = "Constant"
FirstIsLabel(args, group) ==
    /\ Len(args) > 0
    /\ group.name.t = args[1].t
    /\ group.name = args[1]
    /\ group.values = Pickled(Tail(args))
C23_WitnessNamed ==
    /\ IsNamed(result)
    /\ result.out.args = <<StrV("label"), IntV(1)>>
    /\ result.out.name = StrV("given")
    /\ result.out.group.name = StrV("given")
    /\ Len(result.out.group.values) = 2
    /\ result.out.group.arg_names = <<StrV("'label'"), StrV("x")>>

====
